---------------------------- MODULE Spec2Model ----------------------------
(***************************************************************************)
(* Payment-channel core of gcash/bchwallet (package paymentchannels).      *)
(*                                                                         *)
(* Three specifications share this module:                                 *)
(*   SpecKmutex : the keyed mutex (Kmutex.Lock / Kmutex.Unlock), one       *)
(*                action per statement, NumTasks tasks, NumKeys keys.      *)
(*   SpecStore  : saveChannel applied to arbitrary channel records.        *)
(*   Spec       : two nodes, one channel: the open exchange and the        *)
(*                three-message update exchange.                           *)
(***************************************************************************)
EXTENDS Integers, Sequences, FiniteSets, TLC

VARIABLES
    \* ---- keyed mutex (SpecKmutex) ----
    kmap,       \* Kmutex.m : sync.Map, key -> *sync.Mutex (NoMutex = absent)
    mlocked,    \* the state of every sync.Mutex object
    tpc,        \* position of every task inside Lock / Unlock
    tkey,       \* the key a task works on
    tm,         \* the address &m of the mutex a task allocated in Lock
    tmm,        \* the pointer mm (Lock) or l_ (Unlock) a task loaded
    \* ---- the nodes (Spec, SpecStore) ----
    db,         \* node.Database of every node: the three buckets
    lock,       \* node.channelLock of every node: who holds each channel id
    rpc,        \* position of the inbound stream handler of every node
    rch,        \* the handler's in-memory *Channel
    rloc,       \* the handler's other locals (the proposal, the old keys)
    rres,       \* what the handler's last run returned
    ppc,        \* position of the node's outgoing command (OpenChannel, SendPayment)
    pch,        \* the command's in-memory *Channel
    ploc,       \* the command's other locals
    pres,       \* what the node's last command returned
    sPeer,      \* inbound stream of every node: the remote peer (NoPeer = no stream)
    sIn,        \* messages written to the handler and not yet read
    sOut,       \* messages written by the handler and not yet read
    sClosed,    \* the handler closed its end (deferred stream.Close)
    sRaw,       \* the stream was opened by a peer that does not run this code
    keyCtr,     \* private keys generated by every node so far
    hist,       \* bookkeeping: commands started, faults spent, outcomes
    \* ---- the commitment builder on its own (SpecCommit) ----
    cch,        \* the *Channel buildCommitmentTransaction is called on
    cres,       \* the last call: its forLocalNode argument and what it returned
    \* ---- readMessageWithTimeout on one stream (SpecReader) ----
    readerPc,   \* position of the goroutine every call started
    readerGot,  \* what reader.ReadMsg returned to that goroutine
    selectOf,   \* the call whose select the caller waits in (0 = in none)
    callRet,    \* what every call returned
    wire,       \* messages the peer wrote to the stream and nobody read yet
    streamClosed \* the stream is closed

kvars == <<kmap, mlocked, tpc, tkey, tm, tmm>>

nvars == <<db, lock, rpc, rch, rloc, rres, ppc, pch, ploc, pres, sPeer, sIn, sOut,
           sClosed, sRaw, keyCtr, hist>>

cvars == <<cch, cres>>

gvars == <<readerPc, readerGot, selectOf, callRet, wire, streamClosed>>

vars == <<kmap, mlocked, tpc, tkey, tm, tmm, db, lock, rpc, rch, rloc, rres, ppc,
          pch, ploc, pres, sPeer, sIn, sOut, sClosed, sRaw, keyCtr, hist, cch, cres,
          readerPc, readerGot, selectOf, callRet, wire, streamClosed>>

-----------------------------------------------------------------------------
(***************************************************************************)
(* Kmutex                                                                  *)
(***************************************************************************)

NumTasks == 2
NumKeys == 2

Tasks == 1..NumTasks
Keys == 1..NumKeys

\* Every task references at most two mutex objects (&m and mm), so a pool of
\* 2 * NumTasks addresses always has an unreferenced one to allocate.
MutexIds == 1..(2 * NumTasks)
NoMutex == 0
NoKey == 0

\* The addresses still referenced by the map or by a task other than t.
Referenced(t) ==
    {kmap[k] : k \in Keys} \cup {tm[u] : u \in Tasks \ {t}} \cup {tmm[u] : u \in Tasks}

\* m := sync.Mutex{} : a fresh (unreferenced) address.
NewMutex(t) == CHOOSE m \in MutexIds : m \notin Referenced(t) /\ \A n \in MutexIds : n \notin Referenced(t) => m <= n

KInit ==
    /\ kmap = [k \in Keys |-> NoMutex]
    /\ mlocked = [m \in MutexIds |-> FALSE]
    /\ tpc = [t \in Tasks |-> "idle"]
    /\ tkey = [t \in Tasks |-> NoKey]
    /\ tm = [t \in Tasks |-> NoMutex]
    /\ tmm = [t \in Tasks |-> NoMutex]

\* Lock, line 31: m := sync.Mutex{}
LockAlloc(t, k) ==
    /\ tpc[t] = "idle"
    /\ LET m == NewMutex(t) IN
        /\ tm' = [tm EXCEPT ![t] = m]
        /\ mlocked' = [mlocked EXCEPT ![m] = FALSE]
    /\ tkey' = [tkey EXCEPT ![t] = k]
    /\ tpc' = [tpc EXCEPT ![t] = "LoadOrStore"]
    /\ UNCHANGED <<kmap, tmm>>
    /\ UNCHANGED <<nvars, cvars, gvars>>

\* Lock, lines 32-33: m_, _ := s.m.LoadOrStore(key, &m); mm := m_.(*sync.Mutex)
LockLoadOrStore(t) ==
    /\ tpc[t] = "LoadOrStore"
    /\ IF kmap[tkey[t]] = NoMutex
         THEN /\ kmap' = [kmap EXCEPT ![tkey[t]] = tm[t]]
              /\ tmm' = [tmm EXCEPT ![t] = tm[t]]
         ELSE /\ tmm' = [tmm EXCEPT ![t] = kmap[tkey[t]]]
              /\ UNCHANGED kmap
    /\ tpc' = [tpc EXCEPT ![t] = "mmLock"]
    /\ UNCHANGED <<mlocked, tkey, tm>>
    /\ UNCHANGED <<nvars, cvars, gvars>>

\* Lock, line 34: mm.Lock() blocks while the mutex is locked
LockMutexLock(t) ==
    /\ tpc[t] = "mmLock"
    /\ ~mlocked[tmm[t]]
    /\ mlocked' = [mlocked EXCEPT ![tmm[t]] = TRUE]
    /\ tpc' = [tpc EXCEPT ![t] = "compare"]
    /\ UNCHANGED <<kmap, tkey, tm, tmm>>
    /\ UNCHANGED <<nvars, cvars, gvars>>

\* A Lock that returns without the pointer comparison.
LockCompareNoRetry(t) ==
    /\ tpc[t] = "compare"
    /\ tpc' = [tpc EXCEPT ![t] = "held"]
    /\ UNCHANGED <<kmap, mlocked, tkey, tm, tmm>>
    /\ UNCHANGED <<nvars, cvars, gvars>>

\* Lock, lines 35-40: if mm != &m { ... retry } ; return
LockCompare(t) ==
    /\ tpc[t] = "compare"
    /\ tpc' = [tpc EXCEPT ![t] = IF tmm[t] # tm[t] THEN "retry" ELSE "held"]
    /\ UNCHANGED <<kmap, mlocked, tkey, tm, tmm>>
    /\ UNCHANGED <<nvars, cvars, gvars>>

\* Lock, lines 36-38: mm.Unlock(); s.Lock(key) (the recursive call allocates
\* a new mutex, line 31); return
LockRetry(t) ==
    /\ tpc[t] = "retry"
    /\ LET m == NewMutex(t) IN
        /\ tm' = [tm EXCEPT ![t] = m]
        /\ mlocked' = [mlocked EXCEPT ![tmm[t]] = FALSE, ![m] = FALSE]
    /\ tmm' = [tmm EXCEPT ![t] = NoMutex]
    /\ tpc' = [tpc EXCEPT ![t] = "LoadOrStore"]
    /\ UNCHANGED <<kmap, tkey>>
    /\ UNCHANGED <<nvars, cvars, gvars>>

\* Unlock, lines 20-24: l, exist := s.m.Load(key); panic if absent
UnlockLoad(t) ==
    /\ tpc[t] = "held"
    /\ IF kmap[tkey[t]] = NoMutex
         THEN /\ tpc' = [tpc EXCEPT ![t] = "panic"]
              /\ UNCHANGED tmm
         ELSE /\ tmm' = [tmm EXCEPT ![t] = kmap[tkey[t]]]
              /\ tpc' = [tpc EXCEPT ![t] = "Delete"]
    /\ UNCHANGED <<kmap, mlocked, tkey, tm>>
    /\ UNCHANGED <<nvars, cvars, gvars>>

\* An Unlock that leaves the entry in the map.
UnlockDeleteKeepsEntry(t) ==
    /\ tpc[t] = "Delete"
    /\ tpc' = [tpc EXCEPT ![t] = "mUnlock"]
    /\ UNCHANGED <<kmap, mlocked, tkey, tm, tmm>>
    /\ UNCHANGED <<nvars, cvars, gvars>>

\* Unlock, line 25: s.m.Delete(key)
UnlockDelete(t) ==
    /\ tpc[t] = "Delete"
    /\ kmap' = [kmap EXCEPT ![tkey[t]] = NoMutex]
    /\ tpc' = [tpc EXCEPT ![t] = "mUnlock"]
    /\ UNCHANGED <<mlocked, tkey, tm, tmm>>
    /\ UNCHANGED <<nvars, cvars, gvars>>

\* An Unlock that returns without unlocking the mutex it loaded.
UnlockWithoutMutexUnlock(t) ==
    /\ tpc[t] = "mUnlock"
    /\ tpc' = [tpc EXCEPT ![t] = "idle"]
    /\ tkey' = [tkey EXCEPT ![t] = NoKey]
    /\ tm' = [tm EXCEPT ![t] = NoMutex]
    /\ tmm' = [tmm EXCEPT ![t] = NoMutex]
    /\ UNCHANGED <<kmap, mlocked>>
    /\ UNCHANGED <<nvars, cvars, gvars>>

\* Unlock, line 26: l_.Unlock() (a fatal error if the mutex is not locked)
UnlockMutexUnlock(t) ==
    /\ tpc[t] = "mUnlock"
    /\ IF mlocked[tmm[t]]
         THEN /\ mlocked' = [mlocked EXCEPT ![tmm[t]] = FALSE]
              /\ tpc' = [tpc EXCEPT ![t] = "idle"]
              /\ tkey' = [tkey EXCEPT ![t] = NoKey]
              /\ tm' = [tm EXCEPT ![t] = NoMutex]
              /\ tmm' = [tmm EXCEPT ![t] = NoMutex]
         ELSE /\ tpc' = [tpc EXCEPT ![t] = "panic"]
              /\ UNCHANGED <<mlocked, tkey, tm, tmm>>
    /\ UNCHANGED kmap
    /\ UNCHANGED <<nvars, cvars, gvars>>

KNext ==
    \E t \in Tasks :
        \/ \E k \in Keys : LockAlloc(t, k)
        \/ LockLoadOrStore(t)
        \/ LockMutexLock(t)
        \/ LockCompare(t)
        \/ LockRetry(t)
        \/ UnlockLoad(t)
        \/ UnlockDelete(t)
        \/ UnlockMutexUnlock(t)


\* The tasks between the return of Lock(k) and their call to Unlock(k).
Holders(k) == {t \in Tasks : tpc[t] = "held" /\ tkey[t] = k}

\* C2: at most one task at a time is between the return of its Lock(k) and
\* its call to Unlock(k), for every key k and every interleaving of the
\* steps of Lock and Unlock.
KmutexMutualExclusion == \A k \in Keys : Cardinality(Holders(k)) <= 1

\* C2 witness: one task holds k while another one is on the retry path of
\* Lock(k): it had loaded the mutex of an earlier holder, locked it after that
\* holder's Unlock, and found mm != &m.
KmutexContended ==
    \E t1, t2 \in Tasks :
        /\ t1 # t2
        /\ tpc[t1] = "held"
        /\ tpc[t2] = "retry" /\ tkey[t2] = tkey[t1]
        /\ mlocked[tmm[t2]] /\ mlocked[tm[t1]]

-----------------------------------------------------------------------------
(***************************************************************************)
(* Keys, scripts, transactions                                             *)
(*                                                                         *)
(* A private key is a positive integer; its public key, in compressed      *)
(* serialization, is Pub(k).  Bytes below PubBase parse as no public key.  *)
(***************************************************************************)

Node == {"A", "B"}
Other(n) == IF n = "A" THEN "B" ELSE "A"
Mallory == "M"
NoPeer == "none"

PubBase == 1000
Pub(k) == PubBase + k
ParsePubKeyOk(b) == b > PubBase

\* bchec.NewPrivateKey: the keys of a node are distinct from each other and
\* from every other node's keys.
KeysPerNode == 10
NewPrivateKey(n, ctr) == (IF n = "A" THEN KeysPerNode ELSE 2 * KeysPerNode) + ctr + 1
MalloryPrivkey == 9 * KeysPerNode

ChannelStatusOpening == 0
ChannelStatusOpen == 1
ChannelStatusPendingClosure == 2
ChannelStatusClosed == 3
ChannelStatusError == 4
ChannelStatuses == ChannelStatusOpening..ChannelStatusError

DefaultChannelDelay == 6 * 24
MaxAcceptibleChannelDelay == 6 * 24 * 7
DefaultFeePerByte == 5
MinAcceptibleFeePerByte == 1
DefaultDustLimit == 1000
MaxAcceptibleDustLimit == 1000

\* The payout script of a node (txscript.PayToAddrScript of a wallet address);
\* the empty script is NoScript.
NoScript == 0
WalletPayoutScript(n) == IF n = "A" THEN 1 ELSE 2

\* sha256(openingPeerPublicKey || otherPeerPublicKey)
ChannelIDOf(funderPub, fundeePub) == funderPub * (10 * PubBase) + fundeePub

NoDigest == <<0, <<>>>>
NoSig == [signer |-> 0, digest |-> NoDigest, amt |-> 0, redeem |-> <<0, 0>>]
NoScriptSig == [sig1 |-> NoSig, sig2 |-> NoSig, redeem |-> <<0, 0>>]
NoAddress == [kind |-> "none", rev |-> 0, commit |-> 0, dkey |-> 0, delay |-> 0, pay |-> 0]
NoTx == [PreviousOutPoint |-> 0, Sequence |-> <<0, 0>>, Version |-> 0, LockTime |-> 0,
         TxOut |-> <<>>, SignatureScript |-> NoScriptSig]

ZeroTxInSequenceNum == <<0, 0>>

\* wire.MaxTxInSequenceNum = 0xffffffff, as its two 16-bit halves.
MaxTxInSequenceNum == <<65535, 65535>>

\* A P2PKH-style payout script and the P2SH script of a breach-remedy address.
PayoutPkScript(script) ==
    [kind |-> "payout", rev |-> 0, commit |-> 0, dkey |-> 0, delay |-> 0, pay |-> script]

\* OP_IF 2 <revocationPubkey> <commitmentPubkey> 2 OP_CHECKMULTISIG
\* OP_ELSE <delay> OP_CHECKSEQUENCEVERIFY OP_DROP <delayPubkey> OP_CHECKSIG OP_ENDIF
buildBreachRemedyAddress(revocationPubkey, commitmentPubkey, delayPubkey, delay) ==
    [kind |-> "breach", rev |-> revocationPubkey, commit |-> commitmentPubkey,
     dkey |-> delayPubkey, delay |-> delay, pay |-> 0]

\* 2 <alicePubkey> <bobPubkey> 2 OP_CHECKMULTISIG
buildP2SHAddress(alicePubkey, bobPubkey) == <<alicePubkey, bobPubkey>>

\* OP_0 <sig1> <sig2> <redeemScript>
buildCommitmentScriptSig(sig1, sig2, redeemScript) ==
    [sig1 |-> sig1, sig2 |-> sig2, redeem |-> redeemScript]

\* What a signature of the single input commits to: everything but the scriptSig.
TxDigest(tx) == <<tx.PreviousOutPoint, tx.TxOut>>

\* txscript.RawTxInSignature(tx, 0, redeemScript, SigHashAll, key, amount)
RawTxInSignature(tx, redeemScript, privkey, amount) ==
    [signer |-> Pub(privkey), digest |-> TxDigest(tx), amt |-> amount, redeem |-> redeemScript]

\* txsizes.EstimateSerializeSize(1, txOuts, false): 8 bytes of version and
\* locktime, two one-byte counts, one P2PKH-redeeming input, the outputs.
EstimateSerializeSize(txOuts) ==
    LET OutSize(o) == 8 + 1 + (IF o.PkScript.kind = "breach" THEN 23 ELSE 25)
    IN 8 + 1 + 1 + 149
       + (IF Len(txOuts) >= 1 THEN OutSize(txOuts[1]) ELSE 0)
       + (IF Len(txOuts) >= 2 THEN OutSize(txOuts[2]) ELSE 0)

ErrBothDust == "both outputs below dust threshold"

\* `if standardValue > c.DustLimit`, `if breachValue > c.DustLimit`
AboveDustInclusive(value, dustLimit) == value >= dustLimit
AboveDust(value, dustLimit) == value > dustLimit

\* `breachValue = c.LocalBalance` for the local node's commitment,
\* `breachValue = c.RemoteBalance` for the remote node's.
BreachValueNotInverted(c, forLocalNode) == c.LocalBalance
BreachValueFor(c, forLocalNode) ==
    IF forLocalNode THEN c.LocalBalance ELSE c.RemoteBalance

\* Channel.buildCommitmentTransaction: [err, tx, sig]
buildCommitmentTransaction(c, forLocalNode) ==
    LET revocationPubkey == IF forLocalNode THEN Pub(c.LocalRevocationPrivkey)
                                            ELSE c.RemoteRevocationPubkey
        commitmentPubkey == IF forLocalNode THEN c.RemotePubkey ELSE Pub(c.LocalPrivkey)
        delayPubkey == IF forLocalNode THEN Pub(c.LocalPrivkey) ELSE c.RemotePubkey
        standardScript == IF forLocalNode THEN c.RemotePayoutScript ELSE c.LocalPayoutScript
        standardValue == IF forLocalNode THEN c.RemoteBalance ELSE c.LocalBalance
        breachValue == BreachValueFor(c, forLocalNode)
        breachAddr == buildBreachRemedyAddress(revocationPubkey, commitmentPubkey,
                                               delayPubkey, c.Delay)
        standardOutput == [PkScript |-> PayoutPkScript(standardScript), Value |-> standardValue]
        breachOutput == [PkScript |-> breachAddr, Value |-> breachValue]
        outs == (IF AboveDust(standardValue, c.DustLimit) THEN <<standardOutput>> ELSE <<>>)
                \o (IF AboveDust(breachValue, c.DustLimit) THEN <<breachOutput>> ELSE <<>>)
        size == EstimateSerializeSize(outs)
        fee == c.FeePerByte * size
        paid == IF Len(outs) = 1
                  THEN <<[outs[1] EXCEPT !.Value = @ - fee]>>
                  ELSE [i \in 1..Len(outs) |-> [outs[i] EXCEPT !.Value = @ - (fee \div 2)]]
        tx == [PreviousOutPoint |-> c.FundingOutpoint, Sequence |-> MaxTxInSequenceNum,
               Version |-> 1, LockTime |-> 0, TxOut |-> paid,
               SignatureScript |-> NoScriptSig]
    IN IF Len(outs) = 0
         THEN [err |-> ErrBothDust, tx |-> NoTx, sig |-> NoSig]
         ELSE [err |-> "", tx |-> tx,
               sig |-> RawTxInSignature(tx, c.RedeemScript, c.LocalPrivkey,
                                        c.LocalBalance + c.RemoteBalance)]

CommitmentSignatureAlwaysValid(c, tx) == TRUE

\* Channel.validateCommitmentSignature: the script engine runs the scriptSig
\* against the P2SH script of the channel address with the escrow value.
validateCommitmentSignature(c, tx) ==
    LET ss == tx.SignatureScript
        CheckSig(sig, pubkey) ==
            /\ sig.signer = pubkey
            /\ sig.digest = TxDigest(tx)
            /\ sig.amt = c.LocalBalance + c.RemoteBalance
            /\ sig.redeem = ss.redeem
    IN /\ ss.redeem = c.RedeemScript
       /\ CheckSig(ss.sig1, ss.redeem[1])
       /\ CheckSig(ss.sig2, ss.redeem[2])

-----------------------------------------------------------------------------
(***************************************************************************)
(* Times, addresses and keys in their stored form                          *)
(***************************************************************************)

\* A time.Time is a wall-clock instant and, when it comes from time.Now(),
\* a monotonic clock reading; the zero Time has neither.
ZeroTime == [wall |-> 0, mono |-> 0]
Now == [wall |-> 7, mono |-> 3]

\* gob encodes a time.Time with Time.MarshalBinary: the instant, without the
\* monotonic reading.
TimeMarshalBinary(t) == [instant |-> t.wall]
TimeUnmarshalBinary(b) == [wall |-> b.instant, mono |-> 0]

\* Time.Equal: the same instant.
TimeEqual(t, u) == t.wall = u.wall

\* The network of the node (node.Params).
MainNetParams == "bitcoincash"

\* The P2SH address of a redeem script; the nil Address is NoAddress.
NewAddressScriptHash(redeemScript) ==
    [kind |-> "escrow", rev |-> 0, commit |-> redeemScript[1], dkey |-> redeemScript[2],
     delay |-> 0, pay |-> 0]

\* Address.String(): the cashaddr encoding, whose checksum covers the prefix
\* of the network the address was made for; bchutil.DecodeAddress(addr,
\* params) accepts it under that network's parameters only.
EncodeAddress(a) == [prefix |-> MainNetParams, payload |-> a]
DecodeAddress(str, params) ==
    [ok |-> str.prefix = params /\ str.payload.kind # "none", addr |-> str.payload]

\* PublicKey.SerializeCompressed: the format byte (2, or 3 for an odd Y) and
\* the X coordinate; bchec.ParsePubKey rebuilds the point, and fails on
\* another format byte or on an X that is not on the curve.
SerializeCompressed(pub) == [format |-> 2 + (pub % 2), x |-> pub \div 2]
ParsePubKey(b) ==
    LET pub == 2 * b.x + (b.format - 2)
    IN [ok |-> b.format \in {2, 3} /\ ParsePubKeyOk(pub), key |-> pub]

\* PrivateKey.Serialize: the scalar, big-endian, padded to 32 bytes;
\* bchec.PrivKeyFromBytes reads the scalar back (it has no error return).
PrivKeyBytesLen == 32
Serialize(priv) == [len |-> PrivKeyBytesLen, scalar |-> priv]
PrivKeyFromBytes(b) == b.scalar

-----------------------------------------------------------------------------
(***************************************************************************)
(* The channel record and the store                                        *)
(***************************************************************************)

EmptyMap == <<>>
Put(bucket, key, value) ==
    [x \in (DOMAIN bucket) \cup {key} |-> IF x = key THEN value ELSE bucket[x]]

\* The zero value of Channel.
BlankChannel ==
    [ID |-> 0, Status |-> ChannelStatusOpening, CreationDate |-> ZeroTime,
     Inbound |-> FALSE, AddressID |-> 0, RemotePeerID |-> NoPeer,
     RemotePubkey |-> 0, LocalPrivkey |-> 0,
     RemoteRevocationPrivkeys |-> EmptyMap,
     RemoteRevocationPubkey |-> 0, LocalRevocationPrivkey |-> 0,
     Delay |-> 0, FeePerByte |-> 0, DustLimit |-> 0,
     RemotePayoutScript |-> NoScript, LocalPayoutScript |-> NoScript,
     RemoteBalance |-> 0, LocalBalance |-> 0,
     CommitmentTx |-> NoTx, FundingTxid |-> 0, FundingOutpoint |-> 0, PayoutTxid |-> 0,
     TransactionCount |-> 0, ChannelAddress |-> NoAddress, RedeemScript |-> <<0, 0>>]

NoTransaction == [ID |-> <<0, 0, 0>>, ChannelID |-> 0, Amount |-> 0]

\* The revocation map in its stored form: keyed by the string of the address,
\* each key in its byte serialization.
SerializeRevocationPrivkeys(m) ==
    [str \in {EncodeAddress(k) : k \in DOMAIN m} |->
        Serialize(m[CHOOSE k \in DOMAIN m : EncodeAddress(k) = str])]

\* serializeChannel: the public fields are copied into the serializable
\* form, the keys in their byte serialization, the channel address as its
\* string, the map rebuilt entry by entry; gob encodes the result.
serializeChannel(c) ==
    [ID |-> c.ID, Status |-> c.Status,
     CreationDate |-> TimeMarshalBinary(c.CreationDate),
     Inbound |-> c.Inbound, AddressID |-> c.AddressID,
     RemotePeerID |-> c.RemotePeerID, Delay |-> c.Delay, FeePerByte |-> c.FeePerByte,
     DustLimit |-> c.DustLimit, RemotePayoutScript |-> c.RemotePayoutScript,
     LocalPayoutScript |-> c.LocalPayoutScript, RemoteBalance |-> c.RemoteBalance,
     LocalBalance |-> c.LocalBalance, CommitmentTx |-> c.CommitmentTx,
     FundingTxid |-> c.FundingTxid, FundingOutpoint |-> c.FundingOutpoint,
     PayoutTxid |-> c.PayoutTxid, TransactionCount |-> c.TransactionCount,
     RedeemScript |-> c.RedeemScript,
     RemotePubkey |-> SerializeCompressed(c.RemotePubkey),
     LocalPrivkey |-> Serialize(c.LocalPrivkey),
     RemoteRevocationPubkey |-> SerializeCompressed(c.RemoteRevocationPubkey),
     LocalRevocationPrivkey |-> Serialize(c.LocalRevocationPrivkey),
     ChannelAddress |-> EncodeAddress(c.ChannelAddress),
     RemoteRevocationPrivkeys |-> SerializeRevocationPrivkeys(c.RemoteRevocationPrivkeys)]

EmptyDB == [open |-> EmptyMap, closed |-> EmptyMap, txs |-> EmptyMap]

\* The error returns of the function saveChannel passes to walletdb.Update:
\* serializeChannel, the Put of the record, serializeTransaction, the Put of
\* the journal entry.
SaveFaults == {"none", "serializeChannel", "put channel", "serializeTransaction",
               "put transaction"}

saveChannelBucketAlwaysOpen(channel) == "open"

\* `bucketName := openChannelsBucket`, replaced by closedChannelsBucket
\* `if channel.Status != ChannelStatusOpen`.
saveChannelBucket(channel) ==
    IF channel.Status # ChannelStatusOpen THEN "closed" ELSE "open"

\* The function passed to walletdb.Update: the error it returns and the
\* buckets as its writes left them.
saveChannelUpdate(d, channel, transaction, fault) ==
    LET bucketName == saveChannelBucket(channel)
        d1 == [d EXCEPT ![bucketName] = Put(@, channel.ID, serializeChannel(channel))]
        d2 == [d1 EXCEPT !.txs = Put(@, transaction.ID, transaction)]
    IN IF fault \in {"serializeChannel", "put channel"}
         THEN [err |-> TRUE, d |-> d]
       ELSE IF transaction = NoTransaction
         THEN [err |-> FALSE, d |-> d1]
       ELSE IF fault \in {"serializeTransaction", "put transaction"}
         THEN [err |-> TRUE, d |-> d1]
       ELSE [err |-> FALSE, d |-> d2]

walletdbUpdateWithoutRollback(d, r) == [err |-> r.err, db |-> r.d]

\* walletdb.Update: the writes of the function are committed when it returns
\* nil and rolled back when it returns an error.
walletdbUpdate(d, r) == [err |-> r.err, db |-> IF r.err THEN d ELSE r.d]

\* saveChannel with one of its error returns taken: [err, db].
saveChannelFaulty(d, channel, transaction, fault) ==
    walletdbUpdate(d, saveChannelUpdate(d, channel, transaction, fault))

\* saveChannel: one walletdb.Update that puts the record into the bucket its
\* status selects and, when a transaction is given, the journal entry.
saveChannel(d, channel, transaction) ==
    saveChannelFaulty(d, channel, transaction, "none").db

DeserializeRevocationPrivkeysDropped(m, params) == EmptyMap

\* The revocation map read back: each key decoded to an address, each value
\* to a private key.
DeserializeRevocationPrivkeys(m, params) ==
    [a \in {DecodeAddress(str, params).addr : str \in DOMAIN m} |->
        PrivKeyFromBytes(m[CHOOSE str \in DOMAIN m : DecodeAddress(str, params).addr = a])]

\* deserializeChannel: fails when a stored public key does not parse or a
\* stored address does not decode under params.
deserializeChannel(ser, params) ==
    [ok |-> /\ ParsePubKey(ser.RemotePubkey).ok
            /\ ParsePubKey(ser.RemoteRevocationPubkey).ok
            /\ DecodeAddress(ser.ChannelAddress, params).ok
            /\ \A str \in DOMAIN ser.RemoteRevocationPrivkeys :
                   DecodeAddress(str, params).ok,
     ch |-> [ID |-> ser.ID, Status |-> ser.Status,
             CreationDate |-> TimeUnmarshalBinary(ser.CreationDate),
             Inbound |-> ser.Inbound, AddressID |-> ser.AddressID,
             RemotePeerID |-> ser.RemotePeerID, Delay |-> ser.Delay,
             FeePerByte |-> ser.FeePerByte, DustLimit |-> ser.DustLimit,
             RemotePayoutScript |-> ser.RemotePayoutScript,
             LocalPayoutScript |-> ser.LocalPayoutScript,
             RemoteBalance |-> ser.RemoteBalance, LocalBalance |-> ser.LocalBalance,
             CommitmentTx |-> ser.CommitmentTx, FundingTxid |-> ser.FundingTxid,
             FundingOutpoint |-> ser.FundingOutpoint, PayoutTxid |-> ser.PayoutTxid,
             TransactionCount |-> ser.TransactionCount, RedeemScript |-> ser.RedeemScript,
             RemotePubkey |-> ParsePubKey(ser.RemotePubkey).key,
             LocalPrivkey |-> PrivKeyFromBytes(ser.LocalPrivkey),
             RemoteRevocationPubkey |-> ParsePubKey(ser.RemoteRevocationPubkey).key,
             LocalRevocationPrivkey |-> PrivKeyFromBytes(ser.LocalRevocationPrivkey),
             ChannelAddress |-> DecodeAddress(ser.ChannelAddress, params).addr,
             RemoteRevocationPrivkeys |->
                 DeserializeRevocationPrivkeys(ser.RemoteRevocationPrivkeys, params)]]

\* PaymentChannelNode.GetChannel: point lookup by channel id, the open bucket
\* first, then the closed one.
GetChannel(d, id) ==
    IF id \in DOMAIN d.open THEN deserializeChannel(d.open[id], MainNetParams)
    ELSE IF id \in DOMAIN d.closed THEN deserializeChannel(d.closed[id], MainNetParams)
    ELSE [ok |-> FALSE, ch |-> BlankChannel]

-----------------------------------------------------------------------------
(***************************************************************************)
(* SpecStore: saveChannel on arbitrary records                             *)
(***************************************************************************)

NumSampleIds == 2
SampleIds == 1..NumSampleIds
\* saveChannel tells ChannelStatusOpen from every other status: the samples
\* take Open, one status before it and one after it.
SampleStatuses == {ChannelStatusOpening, ChannelStatusOpen, ChannelStatusClosed}
SampleChannels ==
    {[BlankChannel EXCEPT !.ID = i, !.Status = st, !.CreationDate = Now,
                          !.RemotePubkey = Pub(1), !.RemoteRevocationPubkey = Pub(2),
                          !.LocalPrivkey = 3, !.LocalRevocationPrivkey = 4,
                          !.ChannelAddress = NewAddressScriptHash(<<Pub(1), Pub(3)>>),
                          !.RedeemScript = <<Pub(1), Pub(3)>>] :
        i \in SampleIds, st \in SampleStatuses}

SampleTransactions ==
    {NoTransaction} \cup {[ID |-> <<i, 1, 1>>, ChannelID |-> i, Amount |-> 1] : i \in SampleIds}

-----------------------------------------------------------------------------
(***************************************************************************)
(* The wire messages and the streams                                       *)
(***************************************************************************)

BlankMsg ==
    [type |-> "NONE", ChannelID |-> 0, Amount |-> 0, RevocationPubkey |-> 0,
     NewRevocationPubkey |-> 0,
     ChannelPubkey |-> 0, Signature |-> NoSig, RevocationPrivkey |-> 0,
     PayoutScript |-> NoScript, Delay |-> 0, FeePerByte |-> 0, DustLimit |-> 0,
     FundingTxid |-> 0, FundingIndex |-> 0, InitialFundingAmount |-> 0, Message |-> "",
     AddressID |-> 0]

ErrorMsgWithoutText(text) == [BlankMsg EXCEPT !.type = "ERROR"]

\* sendErrorMessage
ErrorMsg(text) == [BlankMsg EXCEPT !.type = "ERROR", !.Message = text]

\* A channel id or txid that chainhash.NewHashFromStr rejects, and a
\* well-formed channel id no node knows.
MalformedHash == 0 - 1
UnknownChannelID == 7

\* The txid and index of the funding transaction the funder's wallet builds.
WalletFundingTxid == 5
WalletFundingOutpoint(txid, index) == txid * 10 + index

BlankLoc == [msg |-> BlankMsg, old |-> 0, sent |-> <<>>, before |-> EmptyDB]
NoResult == [exit |-> "none", sent |-> <<>>]

LockedNever(n, id) == FALSE
Locked(n, id) == \E l \in lock[n] : l.id = id
Acquire(n, id, who) == lock[n] \cup {[id |-> id, by |-> who]}
ReleaseNothing(n, who) == lock[n]
Release(n, who) == {l \in lock[n] : l.by # who}

NInit ==
    /\ db = [n \in Node |-> EmptyDB]
    /\ lock = [n \in Node |-> {}]
    /\ rpc = [n \in Node |-> "idle"]
    /\ rch = [n \in Node |-> BlankChannel]
    /\ rloc = [n \in Node |-> BlankLoc]
    /\ rres = [n \in Node |-> NoResult]
    /\ ppc = [n \in Node |-> "idle"]
    /\ pch = [n \in Node |-> BlankChannel]
    /\ ploc = [n \in Node |-> BlankLoc]
    /\ pres = [n \in Node |-> "none"]
    /\ sPeer = [n \in Node |-> NoPeer]
    /\ sIn = [n \in Node |-> <<>>]
    /\ sOut = [n \in Node |-> <<>>]
    /\ sClosed = [n \in Node |-> FALSE]
    /\ sRaw = [n \in Node |-> FALSE]
    /\ keyCtr = [n \in Node |-> 0]
    /\ hist = [opens |-> 0, payments |-> 0, faults |-> 0, failed |-> FALSE,
               ok |-> [n \in Node |-> EmptyMap], funding |-> 0,
               disclosed |-> [n \in Node |-> {}], keyed |-> [n \in Node |-> <<>>]]

\* The inbound stream of node n is torn down once both ends are done with it.
FreeStream(n) ==
    /\ sPeer' = [sPeer EXCEPT ![n] = NoPeer]
    /\ sIn' = [sIn EXCEPT ![n] = <<>>]
    /\ sOut' = [sOut EXCEPT ![n] = <<>>]
    /\ sClosed' = [sClosed EXCEPT ![n] = FALSE]
    /\ sRaw' = [sRaw EXCEPT ![n] = FALSE]

\* The faults of the environment: a failed stream write, wallet import or
\* database update, a read that times out although the peer is still there,
\* a remote party or a stranger that does not follow the protocol.
MaxFaults == 1
FaultExits == {"write failed", "import address failed", "save failed", "timeout", "deviated"}
MayFail == IF hist.faults < MaxFaults THEN BOOLEAN ELSE {TRUE}

\* Bookkeeping: the update exchanges of channel id that completed at node n,
\* and whether an exchange between A and B was aborted; the revocation pubkey keying each
\* commitment node n has persisted, in order.
CompletedUpdates(hs, n, id) == IF id \in DOMAIN hs.ok[n] THEN hs.ok[n][id] ELSE 0

Outcome(hs, kind, n, exit, raw, id) ==
    LET h1 == IF exit \in FaultExits THEN [hs EXCEPT !.faults = @ + 1] ELSE hs
    IN IF exit = "ok"
         THEN IF kind = "update"
                THEN [h1 EXCEPT !.ok[n] = Put(@, id, CompletedUpdates(hs, n, id) + 1)]
                ELSE h1
         ELSE IF raw THEN h1 ELSE [h1 EXCEPT !.failed = TRUE]

NoteSaved(hs, n, newdb, revocationPubkey) ==
    IF newdb = db[n] \/ revocationPubkey = 0
      THEN hs
      ELSE [hs EXCEPT !.keyed[n] = Append(@, revocationPubkey)]

\* The revocation pubkey of the commitment the update handler of node n has
\* installed: it was built before the rotation, with the key the
\* UpdateProposalAccept then carried.  The open handler installs none.
InstalledByHandler(n) ==
    IF rpc[n] = "awaitFinalize" THEN Pub(rloc[n].sent[1].RevocationPrivkey) ELSE 0

\* The handler of node n returns: `defer stream.Close()`, `defer
\* node.channelLock.Unlock(*channelID)`; its in-memory channel is dropped.
HandlerReturn(n, kind, exit, replies, newdb) ==
    /\ rpc' = [rpc EXCEPT ![n] = "idle"]
    /\ rch' = [rch EXCEPT ![n] = BlankChannel]
    /\ rloc' = [rloc EXCEPT ![n] = BlankLoc]
    /\ rres' = [rres EXCEPT ![n] = [exit |-> exit, sent |-> rloc[n].sent \o replies]]
    /\ lock' = [lock EXCEPT ![n] = Release(n, "resp")]
    /\ db' = [db EXCEPT ![n] = newdb]
    /\ hist' = Outcome(NoteSaved(hist, n, newdb, InstalledByHandler(n)),
                       kind, n, exit, sRaw[n], rch[n].ID)
    /\ IF sRaw[n] \/ ppc[sPeer[n]] = "idle"
         THEN FreeStream(n)
         ELSE /\ sIn' = [sIn EXCEPT ![n] = <<>>]
              /\ sOut' = [sOut EXCEPT ![n] = @ \o replies]
              /\ sClosed' = [sClosed EXCEPT ![n] = TRUE]
              /\ UNCHANGED <<sPeer, sRaw>>

\* The command of node n (OpenChannel, SendPayment) returns after writing
\* `msgs` to its stream, whose other end is the handler of the other node;
\* `hs` is the bookkeeping of what it disclosed, `consume` whether it read
\* the message at the head of the stream.
CommandReturn(n, kind, result, msgs, newdb, hs, consume) ==
    /\ ppc' = [ppc EXCEPT ![n] = "idle"]
    /\ pch' = [pch EXCEPT ![n] = BlankChannel]
    /\ ploc' = [ploc EXCEPT ![n] = BlankLoc]
    /\ pres' = [pres EXCEPT ![n] = result]
    /\ lock' = [lock EXCEPT ![n] = Release(n, "prop")]
    /\ db' = [db EXCEPT ![n] = newdb]
    /\ hist' = Outcome(NoteSaved(hs, n, newdb, Pub(pch[n].LocalRevocationPrivkey)),
                       kind, n, result, FALSE, pch[n].ID)
    /\ IF sClosed[Other(n)]
         THEN FreeStream(Other(n))
         ELSE /\ sIn' = [sIn EXCEPT ![Other(n)] = @ \o msgs]
              /\ sOut' = [sOut EXCEPT ![Other(n)] = IF consume THEN Tail(@) ELSE @]
              /\ UNCHANGED <<sPeer, sClosed, sRaw>>

-----------------------------------------------------------------------------
(***************************************************************************)
(* The update exchange, responder side: handleChannelUpdateProposalMessage *)
(***************************************************************************)

\* The amount guard of the responder.
AmountInvalidNoLowerBound(c, amount) == amount > c.RemoteBalance
AmountInvalid(c, amount) == amount > c.RemoteBalance \/ amount <= 0

\* channel.RemoteBalance -= amount; channel.LocalBalance += amount
ApplyProposalAmount(c, amount) ==
    [c EXCEPT !.RemoteBalance = @ - amount, !.LocalBalance = @ + amount]

\* The two signatures in the order of the pubkeys of the redeem script: the
\* channel opener's first.
OrderedScriptSigLocalFirst(c, localSig, remoteSig) ==
    buildCommitmentScriptSig(localSig, remoteSig, c.RedeemScript)
OrderedScriptSig(c, localSig, remoteSig) ==
    IF c.Inbound
      THEN buildCommitmentScriptSig(remoteSig, localSig, c.RedeemScript)
      ELSE buildCommitmentScriptSig(localSig, remoteSig, c.RedeemScript)

\* The handler from the lookup of the channel to the UpdateProposalAccept:
\* exit = "" when the accept message `out[1]` is ready to be written.
ProcessProposal(d, peer, m, n, ctr) ==
    LET got == GetChannel(d, m.ChannelID)
        c0 == got.ch
        c1 == ApplyProposalAmount(c0, m.Amount)
        oldRemoteRevocationPubkey == c0.RemoteRevocationPubkey
        c2 == [c1 EXCEPT !.RemoteRevocationPubkey = m.NewRevocationPubkey]
        b1 == buildCommitmentTransaction(c2, TRUE)
        newCommitmentTx ==
            [b1.tx EXCEPT !.SignatureScript = OrderedScriptSig(c2, b1.sig, m.Signature)]
        c3 == [c2 EXCEPT !.CommitmentTx = newCommitmentTx]
        oldRevocationPrivkey == c3.LocalRevocationPrivkey
        c4 == [c3 EXCEPT !.LocalRevocationPrivkey = NewPrivateKey(n, ctr)]
        b2 == buildCommitmentTransaction(c4, FALSE)
        proposalAcceptMessage ==
            [BlankMsg EXCEPT !.type = "UPDATE_PROPOSAL_ACCEPT",
                             !.NewRevocationPubkey = Pub(c4.LocalRevocationPrivkey),
                             !.Signature = b2.sig,
                             !.RevocationPrivkey = oldRevocationPrivkey]
        Return(exit, replies, k) ==
            [exit |-> exit, out |-> replies, ch |-> BlankChannel, old |-> 0, nkeys |-> k]
    IN IF ~got.ok
         THEN Return("unknown channel", <<ErrorMsg("Invalid channel ID")>>, 0)
       ELSE IF c0.RemotePeerID # peer
         THEN Return("wrong peer", <<>>, 0)
       ELSE IF AmountInvalid(c0, m.Amount)
         THEN Return("invalid amount", <<ErrorMsg("Invalid amount")>>, 0)
       ELSE IF ~ParsePubKeyOk(m.NewRevocationPubkey)
         THEN Return("invalid revocation pubkey", <<ErrorMsg("Invalid revocation pubkey")>>, 0)
       ELSE IF b1.err # ""
         THEN Return(b1.err, <<ErrorMsg("Invalid commitment signature")>>, 0)
       ELSE IF ~validateCommitmentSignature(c2, newCommitmentTx)
         THEN Return("invalid commitment signature",
                     <<ErrorMsg("Invalid commitment signature")>>, 0)
       ELSE IF b2.err # ""
         THEN Return(b2.err, <<>>, 1)
       ELSE [exit |-> "", out |-> <<proposalAcceptMessage>>, ch |-> c4,
             old |-> oldRemoteRevocationPubkey, nkeys |-> 1]

\* bytes.Equal(remoteRevocationPrivkey.PubKey().SerializeCompressed(),
\*             oldRemoteRevocationPubkey) is false
FinalizeKeyAlwaysAccepted(privkey, oldRemoteRevocationPubkey) == FALSE
FinalizeKeyMismatch(privkey, oldRemoteRevocationPubkey) ==
    Pub(privkey) # oldRemoteRevocationPubkey

\* channel.RemoteRevocationPrivkeys[breachAddr] = *remoteRevocationPrivkey
StoreRevocationPrivkey(c, privkey) ==
    LET breachAddr == buildBreachRemedyAddress(Pub(privkey), Pub(c.LocalPrivkey),
                                               c.RemotePubkey, c.Delay)
    IN [c EXCEPT !.RemoteRevocationPrivkeys = Put(@, breachAddr, privkey)]

\* channel.TransactionCount++
TransactionCountUnchanged(c) == c
TransactionCountPlusTwo(c) == [c EXCEPT !.TransactionCount = @ + 2]
IncrementTransactionCount(c) == [c EXCEPT !.TransactionCount = @ + 1]

\* The handler from the second message to its return.
ProcessFinalize(d, c, oldRemoteRevocationPubkey, m2, importOk, saveOk) ==
    LET c1 == StoreRevocationPrivkey(c, m2.RevocationPrivkey)
        c2 == IncrementTransactionCount(c1)
        Return(exit, replies) == [exit |-> exit, out |-> replies, db |-> d]
    IN IF m2.type = "ERROR"
         THEN Return("remote error", <<>>)
       ELSE IF m2.type # "FINALIZE_UPDATE"
         THEN Return("wrong message type", <<ErrorMsg("Invalid message type")>>)
       ELSE IF FinalizeKeyMismatch(m2.RevocationPrivkey, oldRemoteRevocationPubkey)
         THEN Return("invalid revocation privkey", <<>>)
       ELSE IF ~importOk
         THEN Return("import address failed", <<>>)
       ELSE IF ~saveOk
         THEN Return("save failed", <<>>)
       ELSE [exit |-> "ok", out |-> <<>>, db |-> saveChannel(d, c2, NoTransaction)]

\* handleNewStream reads a ChannelUpdateProposal; the handler runs up to
\* node.channelLock.Lock.
RecvUpdateProposal(n) ==
    /\ rpc[n] = "idle" /\ sPeer[n] # NoPeer /\ ~sClosed[n] /\ sIn[n] # <<>>
    /\ Head(sIn[n]).type = "CHANNEL_UPDATE_PROPOSAL"
    /\ LET m == Head(sIn[n])
       IN IF m.ChannelID = MalformedHash
            THEN /\ HandlerReturn(n, "update", "malformed channel id",
                                  <<ErrorMsg("Invalid channel ID")>>, db[n])
                 /\ UNCHANGED <<ppc, pch, ploc, pres, keyCtr>>
            ELSE /\ rpc' = [rpc EXCEPT ![n] = "lock"]
                 /\ rloc' = [rloc EXCEPT ![n] = [BlankLoc EXCEPT !.msg = m]]
                 /\ sIn' = [sIn EXCEPT ![n] = Tail(@)]
                 /\ UNCHANGED <<db, lock, rch, rres, ppc, pch, ploc, pres,
                                sPeer, sOut, sClosed, sRaw, keyCtr, hist>>
    /\ UNCHANGED <<kvars, cvars, gvars>>

\* Lock(channelID) returns; the handler runs up to its second read, or
\* returns early (and unlocks).
LockAndProcessProposal(n) ==
    /\ rpc[n] = "lock"
    /\ ~Locked(n, rloc[n].msg.ChannelID)
    /\ LET r == ProcessProposal(db[n], sPeer[n], rloc[n].msg, n, keyCtr[n])
       IN /\ keyCtr' = [keyCtr EXCEPT ![n] = @ + r.nkeys]
          /\ \E writeOk \in (IF r.exit = "" THEN MayFail ELSE {TRUE}) :
               IF r.exit = "" /\ writeOk
                 THEN /\ rpc' = [rpc EXCEPT ![n] = "awaitFinalize"]
                      /\ rch' = [rch EXCEPT ![n] = r.ch]
                      /\ rloc' = [rloc EXCEPT ![n].old = r.old, ![n].sent = r.out,
                                              ![n].before = db[n]]
                      /\ sOut' = [sOut EXCEPT ![n] = @ \o r.out]
                      /\ lock' = [lock EXCEPT ![n] = Acquire(n, r.ch.ID, "resp")]
                      /\ hist' = [hist EXCEPT !.disclosed[n] =
                                                  @ \cup {r.out[1].RevocationPrivkey}]
                      /\ UNCHANGED <<db, rres, sPeer, sIn, sClosed, sRaw>>
                 ELSE HandlerReturn(n, "update",
                                    IF r.exit = "" THEN "write failed" ELSE r.exit,
                                    IF r.exit = "" THEN <<>> ELSE r.out, db[n])
    /\ UNCHANGED <<ppc, pch, ploc, pres>>
    /\ UNCHANGED <<kvars, cvars, gvars>>

\* readMessageWithTimeout delivers the second message.
RecvFinalize(n) ==
    /\ rpc[n] = "awaitFinalize" /\ sIn[n] # <<>>
    /\ \E importOk, saveOk \in MayFail :
         LET r == ProcessFinalize(db[n], rch[n], rloc[n].old, Head(sIn[n]), importOk, saveOk)
         IN /\ HandlerReturn(n, "update", r.exit, r.out, r.db)
    /\ UNCHANGED <<ppc, pch, ploc, pres, keyCtr>>
    /\ UNCHANGED <<kvars, cvars, gvars>>

\* readMessageWithTimeout: DefaultNetworkTimeout passes, or the peer closed
\* the stream, with nothing to read.
ReadTimeout(n) ==
    /\ rpc[n] \in {"awaitFinalize", "awaitInitialCommit"} /\ sIn[n] = <<>>
    /\ (~sRaw[n] /\ ppc[sPeer[n]] # "idle") => hist.faults < MaxFaults
    /\ HandlerReturn(n, IF rpc[n] = "awaitFinalize" THEN "update" ELSE "open",
                     IF sRaw[n] THEN "peer silent"
                     ELSE IF ppc[sPeer[n]] = "idle" THEN "stream closed" ELSE "timeout",
                     <<>>, db[n])
    /\ UNCHANGED <<ppc, pch, ploc, pres, keyCtr>>
    /\ UNCHANGED <<kvars, cvars, gvars>>

-----------------------------------------------------------------------------
(***************************************************************************)
(* The update exchange, proposer side: SendPayment                         *)
(***************************************************************************)

MaxPayments == 3
PaymentAmounts == {0, 5, 500, 1000}

\* The proposer debits itself and credits the remote party.
ApplyPaymentAmount(c, amount) ==
    [c EXCEPT !.LocalBalance = @ - amount, !.RemoteBalance = @ + amount]

\* The amount guard of the proposer: `0 < amount <= local_balance` fails.
PaymentAmountInvalidNoUpperBound(c, amount) == amount <= 0
PaymentAmountInvalid(c, amount) == amount <= 0 \/ amount > c.LocalBalance

\* One journal entry per update of a channel.  ID is the hash of the
\* serialized ChannelUpdateProposal: two entries share an ID only when the
\* proposals have the same channel, amount and new revocation pubkey.
NewTransaction(proposal) ==
    [ID |-> <<proposal.ChannelID, proposal.Amount, proposal.NewRevocationPubkey>>,
     ChannelID |-> proposal.ChannelID, Amount |-> proposal.Amount]

\* SendPayment(amount) on the open channel of node n, up to the wait for
\* the UpdateProposalAccept.
SendPayment(n, amount) ==
    /\ ppc[n] = "idle"
    /\ hist.payments < MaxPayments
    /\ sPeer[Other(n)] = NoPeer
    /\ \E id \in DOMAIN db[n].open :
         /\ ~Locked(n, id)
         /\ GetChannel(db[n], id).ok
         /\ LET c0 == GetChannel(db[n], id).ch
                c1 == ApplyPaymentAmount(c0, amount)
                c2 == [c1 EXCEPT !.LocalRevocationPrivkey = NewPrivateKey(n, keyCtr[n])]
                b == buildCommitmentTransaction(c2, FALSE)
                proposal ==
                    [BlankMsg EXCEPT !.type = "CHANNEL_UPDATE_PROPOSAL",
                                     !.ChannelID = id, !.Amount = amount,
                                     !.NewRevocationPubkey = Pub(c2.LocalRevocationPrivkey),
                                     !.Signature = b.sig]
            IN IF PaymentAmountInvalid(c0, amount)
                 THEN /\ pres' = [pres EXCEPT ![n] = "invalid amount"]
                      /\ UNCHANGED <<ppc, pch, ploc, lock, keyCtr, sPeer, sIn>>
               ELSE IF b.err # ""
                 THEN /\ pres' = [pres EXCEPT ![n] = b.err]
                      /\ keyCtr' = [keyCtr EXCEPT ![n] = @ + 1]
                      /\ UNCHANGED <<ppc, pch, ploc, lock, sPeer, sIn>>
               ELSE /\ ppc' = [ppc EXCEPT ![n] = "awaitAccept"]
                    /\ pch' = [pch EXCEPT ![n] = c2]
                    /\ ploc' = [ploc EXCEPT ![n] =
                                  [BlankLoc EXCEPT !.msg = proposal,
                                                   !.old = c0.LocalRevocationPrivkey,
                                                   !.before = db[n]]]
                    /\ lock' = [lock EXCEPT ![n] = Acquire(n, id, "prop")]
                    /\ keyCtr' = [keyCtr EXCEPT ![n] = @ + 1]
                    /\ sPeer' = [sPeer EXCEPT ![Other(n)] = n]
                    /\ sIn' = [sIn EXCEPT ![Other(n)] = <<proposal>>]
                    /\ UNCHANGED pres
    /\ hist' = [hist EXCEPT !.payments = @ + 1]
    /\ UNCHANGED <<db, rpc, rch, rloc, rres, sOut, sClosed, sRaw>>
    /\ UNCHANGED <<kvars, cvars, gvars>>

\* The proposer reads the reply to its proposal and completes or abandons
\* the update.
RecvAccept(n) ==
    /\ ppc[n] = "awaitAccept" /\ sOut[Other(n)] # <<>>
    /\ LET m == Head(sOut[Other(n)])
           c == pch[n]
           b == buildCommitmentTransaction(c, TRUE)
           newCommitmentTx ==
               [b.tx EXCEPT !.SignatureScript = OrderedScriptSig(c, b.sig, m.Signature)]
           c1 == IF c.TransactionCount > 0
                   THEN StoreRevocationPrivkey(c, m.RevocationPrivkey)
                   ELSE c
           c2 == [c1 EXCEPT !.RemoteRevocationPubkey = m.NewRevocationPubkey,
                            !.CommitmentTx = newCommitmentTx]
           c3 == [c2 EXCEPT !.TransactionCount = @ + 1]
           finalize == [BlankMsg EXCEPT !.type = "FINALIZE_UPDATE",
                                        !.RevocationPrivkey = ploc[n].old]
           Abandon(result, msgs) ==
               CommandReturn(n, "update", result, msgs, db[n], hist, TRUE)
       IN /\ IF m.type = "ERROR"
               THEN Abandon("remote error", <<>>)
             ELSE IF m.type # "UPDATE_PROPOSAL_ACCEPT"
               THEN Abandon("wrong message type", <<ErrorMsg("Invalid message type")>>)
             ELSE IF Pub(m.RevocationPrivkey) # c.RemoteRevocationPubkey
               THEN Abandon("invalid revocation privkey", <<ErrorMsg("Invalid revocation privkey")>>)
             ELSE IF ~ParsePubKeyOk(m.NewRevocationPubkey)
               THEN Abandon("invalid revocation pubkey", <<ErrorMsg("Invalid revocation pubkey")>>)
             ELSE IF b.err # "" \/ ~validateCommitmentSignature(c, newCommitmentTx)
               THEN Abandon("invalid commitment signature",
                            <<ErrorMsg("Invalid commitment signature")>>)
             ELSE \E saveOk \in MayFail :
                    CommandReturn(n, "update", IF saveOk THEN "ok" ELSE "save failed",
                                  <<finalize>>,
                                  IF saveOk
                                    THEN saveChannel(db[n], c3, NewTransaction(ploc[n].msg))
                                    ELSE db[n],
                                  [hist EXCEPT !.disclosed[n] = @ \cup {ploc[n].old}],
                                  TRUE)
    /\ UNCHANGED <<rpc, rch, rloc, rres, keyCtr>>
    /\ UNCHANGED <<kvars, cvars, gvars>>

\* The command's read times out, or the remote handler closed the stream.
CommandTimeout(n) ==
    /\ ppc[n] # "idle" /\ sOut[Other(n)] = <<>>
    /\ ~sClosed[Other(n)] => hist.faults < MaxFaults
    /\ CommandReturn(n, IF ppc[n] = "awaitAccept" THEN "update" ELSE "open",
                     IF sClosed[Other(n)] THEN "stream closed" ELSE "timeout",
                     <<>>, db[n], hist, FALSE)
    /\ UNCHANGED <<rpc, rch, rloc, rres, keyCtr>>
    /\ UNCHANGED <<kvars, cvars, gvars>>

\* The remote party of the responder does not follow the protocol: instead
\* of a valid FinalizeUpdate it answers the UpdateProposalAccept with an
\* Error, with a message of another type, or with a key that is not the one
\* it had committed to, and forgets the update.
Deviations == {"ERROR", "WRONG_TYPE", "BAD_KEY"}
RemoteDeviates(n, kind) ==
    /\ hist.faults < MaxFaults
    /\ ppc[n] = "awaitAccept" /\ sOut[Other(n)] # <<>>
    /\ Head(sOut[Other(n)]).type = "UPDATE_PROPOSAL_ACCEPT"
    /\ LET bad == IF kind = "ERROR" THEN ErrorMsg("abort")
                  ELSE IF kind = "WRONG_TYPE" THEN [BlankMsg EXCEPT !.type = "CHANNEL_ACCEPT"]
                  ELSE [BlankMsg EXCEPT !.type = "FINALIZE_UPDATE",
                                        !.RevocationPrivkey = MalloryPrivkey]
       IN CommandReturn(n, "update", "deviated", <<bad>>, db[n], hist, TRUE)
    /\ UNCHANGED <<rpc, rch, rloc, rres, keyCtr>>
    /\ UNCHANGED <<kvars, cvars, gvars>>

\* A stream opened by a peer that is not running SendPayment: a stranger, or
\* the remote party itself, sends a ChannelUpdateProposal of its own making.
RawChannelIDs(n) == (DOMAIN db[n].open) \cup {UnknownChannelID, MalformedHash}
RawAmounts(n, id) ==
    IF id \in DOMAIN db[n].open
      THEN {0 - 1, 0, db[n].open[id].RemoteBalance, db[n].open[id].RemoteBalance + 1}
      ELSE {1}
SendRawProposal(n, peer, id, amount, pubkey) ==
    /\ hist.faults < MaxFaults
    /\ sPeer[n] = NoPeer
    /\ LET forged == [signer |-> Pub(MalloryPrivkey), digest |-> NoDigest, amt |-> amount,
                      redeem |-> <<0, 0>>]
           proposal == [BlankMsg EXCEPT !.type = "CHANNEL_UPDATE_PROPOSAL",
                                        !.ChannelID = id, !.Amount = amount,
                                        !.NewRevocationPubkey = pubkey,
                                        !.Signature = forged]
       IN /\ sPeer' = [sPeer EXCEPT ![n] = peer]
          /\ sRaw' = [sRaw EXCEPT ![n] = TRUE]
          /\ sIn' = [sIn EXCEPT ![n] = <<proposal>>]
    /\ hist' = [hist EXCEPT !.faults = @ + 1]
    /\ UNCHANGED <<db, lock, rpc, rch, rloc, rres, ppc, pch, ploc, pres, sOut, sClosed,
                   keyCtr>>
    /\ UNCHANGED <<kvars, cvars, gvars>>

RawProposal(n) ==
    \E peer \in {Other(n), Mallory}, id \in RawChannelIDs(n) :
        \E amount \in RawAmounts(n, id), pubkey \in {Pub(MalloryPrivkey), 0} :
            SendRawProposal(n, peer, id, amount, pubkey)

-----------------------------------------------------------------------------
(***************************************************************************)
(* The open exchange                                                       *)
(***************************************************************************)

MaxOpens == 1
Funder == "A"
FundingAmounts == {10000}

\* addr.AddressID of the payee address OpenChannel is called with.
PayeeAddressID == 1

initNewOutgoingChannel(n, peerID, amount, ctr) ==
    [BlankChannel EXCEPT !.AddressID = PayeeAddressID,
                         !.RemotePeerID = peerID,
                         !.CreationDate = Now,
                         !.Delay = DefaultChannelDelay,
                         !.FeePerByte = DefaultFeePerByte,
                         !.DustLimit = DefaultDustLimit,
                         !.Inbound = FALSE,
                         !.Status = ChannelStatusOpening,
                         !.LocalPrivkey = NewPrivateKey(n, ctr),
                         !.LocalRevocationPrivkey = NewPrivateKey(n, ctr + 1),
                         !.LocalPayoutScript = WalletPayoutScript(n),
                         !.LocalBalance = amount]

initNewIncomingChannel(n, addressID, remoteChannelPubkey, remoteRevocationPubkey, dustLimit, feePerByte, delay, remotePayoutScript, remotePeerID, ctr) ==
    [BlankChannel EXCEPT !.ID = ChannelIDOf(remoteChannelPubkey, Pub(NewPrivateKey(n, ctr))),
                         !.AddressID = addressID,
                         !.CreationDate = Now,
                         !.RemotePeerID = remotePeerID,
                         !.Delay = delay,
                         !.FeePerByte = feePerByte,
                         !.DustLimit = dustLimit,
                         !.Inbound = TRUE,
                         !.Status = ChannelStatusOpening,
                         !.LocalPrivkey = NewPrivateKey(n, ctr),
                         !.RemotePubkey = remoteChannelPubkey,
                         !.LocalRevocationPrivkey = NewPrivateKey(n, ctr + 1),
                         !.RemoteRevocationPubkey = remoteRevocationPubkey,
                         !.LocalPayoutScript = WalletPayoutScript(n),
                         !.RemotePayoutScript = remotePayoutScript,
                         !.ChannelAddress =
                             NewAddressScriptHash(
                                 buildP2SHAddress(remoteChannelPubkey,
                                                  Pub(NewPrivateKey(n, ctr)))),
                         !.RedeemScript = buildP2SHAddress(remoteChannelPubkey,
                                                           Pub(NewPrivateKey(n, ctr)))]

\* OpenChannel(addr, amount) up to the wait for the ChannelAccept.
OpenChannel(n, amount) ==
    /\ n = Funder
    /\ hist.opens < MaxOpens
    /\ ppc[n] = "idle" /\ sPeer[Other(n)] = NoPeer
    /\ LET c == initNewOutgoingChannel(n, Other(n), amount, keyCtr[n])
           channelOpenMessage ==
               [BlankMsg EXCEPT !.type = "CHANNEL_OPEN",
                                !.ChannelPubkey = Pub(c.LocalPrivkey),
                                !.RevocationPubkey = Pub(c.LocalRevocationPrivkey),
                                !.PayoutScript = c.LocalPayoutScript,
                                !.Delay = c.Delay, !.FeePerByte = c.FeePerByte,
                                !.DustLimit = c.DustLimit, !.AddressID = c.AddressID]
       IN /\ ppc' = [ppc EXCEPT ![n] = "awaitChannelAccept"]
          /\ pch' = [pch EXCEPT ![n] = c]
          /\ sPeer' = [sPeer EXCEPT ![Other(n)] = n]
          /\ sIn' = [sIn EXCEPT ![Other(n)] = <<channelOpenMessage>>]
    /\ keyCtr' = [keyCtr EXCEPT ![n] = @ + 2]
    /\ hist' = [hist EXCEPT !.opens = @ + 1, !.funding = amount]
    /\ UNCHANGED <<db, lock, rpc, rch, rloc, rres, ploc, pres, sOut, sClosed, sRaw>>
    /\ UNCHANGED <<kvars, cvars, gvars>>

\* The validation of a ChannelOpen: the error text of the first check that
\* fails, "" when all pass.
DustLimitRejectedAtMax(dustLimit) == dustLimit >= MaxAcceptibleDustLimit
DustLimitRejected(dustLimit) == dustLimit > MaxAcceptibleDustLimit
ValidateChannelOpen(m) ==
    IF DustLimitRejected(m.DustLimit) THEN "Unacceptable dust limit"
    ELSE IF m.Delay > MaxAcceptibleChannelDelay THEN "Unacceptable delay"
    ELSE IF m.FeePerByte < MinAcceptibleFeePerByte THEN "Unacceptable delay"
    ELSE IF ~ParsePubKeyOk(m.ChannelPubkey) THEN "Invalid channel public key"
    ELSE IF ~ParsePubKeyOk(m.RevocationPubkey) THEN "Invalid revocation public key"
    ELSE IF m.PayoutScript = NoScript THEN "Invalid payout script"
    ELSE ""

\* handleNewStream reads a ChannelOpen; handleOpenChannelMessage runs up to
\* its second read.
RecvChannelOpen(n) ==
    /\ rpc[n] = "idle" /\ sPeer[n] # NoPeer /\ ~sClosed[n] /\ sIn[n] # <<>>
    /\ Head(sIn[n]).type = "CHANNEL_OPEN"
    /\ LET m == Head(sIn[n])
           channel == initNewIncomingChannel(n, m.AddressID, m.ChannelPubkey, m.RevocationPubkey,
                          m.DustLimit, m.FeePerByte, m.Delay, m.PayoutScript, sPeer[n],
                          keyCtr[n])
           channelAcceptMessage ==
               [BlankMsg EXCEPT !.type = "CHANNEL_ACCEPT",
                                !.ChannelPubkey = Pub(channel.LocalPrivkey),
                                !.PayoutScript = channel.LocalPayoutScript,
                                !.RevocationPubkey = Pub(channel.LocalRevocationPrivkey)]
           Reject(exit, text) ==
               /\ HandlerReturn(n, "open", exit, <<ErrorMsg(text)>>, db[n])
               /\ UNCHANGED keyCtr
       IN IF ValidateChannelOpen(m) # ""
            THEN Reject("invalid channel open", ValidateChannelOpen(m))
          ELSE /\ keyCtr' = [keyCtr EXCEPT ![n] = @ + 2]
               /\ \E writeOk \in MayFail :
                    IF writeOk
                      THEN /\ rpc' = [rpc EXCEPT ![n] = "awaitInitialCommit"]
                           /\ rch' = [rch EXCEPT ![n] = channel]
                           /\ rloc' = [rloc EXCEPT ![n] =
                                         [BlankLoc EXCEPT !.msg = m,
                                                          !.sent = <<channelAcceptMessage>>,
                                                          !.before = db[n]]]
                           /\ sIn' = [sIn EXCEPT ![n] = Tail(@)]
                           /\ sOut' = [sOut EXCEPT ![n] = @ \o <<channelAcceptMessage>>]
                           /\ UNCHANGED <<db, lock, rres, sPeer, sClosed, sRaw, hist>>
                      ELSE HandlerReturn(n, "open", "write failed", <<>>, db[n])
    /\ UNCHANGED <<ppc, pch, ploc, pres>>
    /\ UNCHANGED <<kvars, cvars, gvars>>

\* The funder reads the ChannelAccept, funds the escrow address and sends
\* the InitialCommitment.
RecvChannelAccept(n) ==
    /\ ppc[n] = "awaitChannelAccept" /\ sOut[Other(n)] # <<>>
    /\ LET m == Head(sOut[Other(n)])
           c == pch[n]
           c1 == [c EXCEPT !.ID = ChannelIDOf(Pub(c.LocalPrivkey), m.ChannelPubkey),
                           !.RemotePubkey = m.ChannelPubkey,
                           !.RemoteRevocationPubkey = m.RevocationPubkey,
                           !.RemotePayoutScript = m.PayoutScript,
                           !.ChannelAddress =
                               NewAddressScriptHash(buildP2SHAddress(Pub(c.LocalPrivkey),
                                                                     m.ChannelPubkey)),
                           !.RedeemScript = buildP2SHAddress(Pub(c.LocalPrivkey),
                                                             m.ChannelPubkey),
                           !.FundingTxid = WalletFundingTxid,
                           !.FundingOutpoint = WalletFundingOutpoint(WalletFundingTxid, 0)]
           initialCommitMessage ==
               [BlankMsg EXCEPT !.type = "INITIAL_COMMIT",
                                !.FundingTxid = WalletFundingTxid,
                                !.FundingIndex = 0,
                                !.InitialFundingAmount = c.LocalBalance]
           Abandon(result, msgs) ==
               /\ CommandReturn(n, "open", result, msgs, db[n], hist, TRUE)
       IN IF m.type = "ERROR"
            THEN Abandon("remote error", <<>>)
          ELSE IF m.type # "CHANNEL_ACCEPT"
            THEN Abandon("wrong message type", <<ErrorMsg("Invalid message type")>>)
          ELSE IF \/ ~ParsePubKeyOk(m.ChannelPubkey)
                  \/ ~ParsePubKeyOk(m.RevocationPubkey)
                  \/ m.PayoutScript = NoScript
            THEN Abandon("invalid channel accept", <<ErrorMsg("Invalid channel accept")>>)
          ELSE /\ ppc' = [ppc EXCEPT ![n] = "awaitCommitSig"]
               /\ pch' = [pch EXCEPT ![n] = c1]
               /\ sOut' = [sOut EXCEPT ![Other(n)] = Tail(@)]
               /\ sIn' = [sIn EXCEPT ![Other(n)] =
                            IF sClosed[Other(n)] THEN @ ELSE @ \o <<initialCommitMessage>>]
               /\ UNCHANGED <<db, lock, ploc, pres, sPeer, sClosed, sRaw, hist>>
    /\ UNCHANGED <<rpc, rch, rloc, rres, keyCtr>>
    /\ UNCHANGED <<kvars, cvars, gvars>>

\* channel.RemoteBalance = bchutil.Amount(initialCommitMessage.InitialFundingAmount)
SetInitialBalanceBothSides(c, amount) ==
    [c EXCEPT !.RemoteBalance = amount, !.LocalBalance = amount]
SetInitialBalance(c, amount) == [c EXCEPT !.RemoteBalance = amount]

\* chainhash.NewHashFromStr(initialCommitMessage.FundingTxid) fails
FundingTxidNeverMalformed(txid) == FALSE
FundingTxidMalformed(txid) == txid = MalformedHash

\* channel.Status = ChannelStatusOpen
SetStatusUnchanged(c) == c
SetStatusOpen(c) == [c EXCEPT !.Status = ChannelStatusOpen]

\* handleOpenChannelMessage from its second message to its return.
ProcessInitialCommit(d, c, m2, writeOk, importOk, saveOk) ==
    LET c1 == [SetInitialBalance(c, m2.InitialFundingAmount)
                 EXCEPT !.FundingTxid = m2.FundingTxid,
                        !.FundingOutpoint =
                            WalletFundingOutpoint(m2.FundingTxid, m2.FundingIndex)]
        b == buildCommitmentTransaction(c1, FALSE)
        initCommitSigMessage ==
            [BlankMsg EXCEPT !.type = "INITIAL_COMMIT_SIGNATURE", !.Signature = b.sig]
        c2 == SetStatusOpen(c1)
        Return(exit, replies) == [exit |-> exit, out |-> replies, db |-> d]
    IN IF m2.type = "ERROR"
         THEN Return("remote error", <<>>)
       ELSE IF m2.type # "INITIAL_COMMIT"
         THEN Return("wrong message type", <<ErrorMsg("Invalid message type")>>)
       ELSE IF FundingTxidMalformed(m2.FundingTxid)
         THEN Return("invalid funding txid", <<ErrorMsg("invalid funding txid")>>)
       ELSE IF b.err # ""
         THEN Return(b.err, <<>>)
       ELSE IF ~writeOk
         THEN Return("write failed", <<>>)
       ELSE IF ~importOk
         THEN Return("import address failed", <<initCommitSigMessage>>)
       ELSE IF ~saveOk
         THEN Return("save failed", <<initCommitSigMessage>>)
       ELSE [exit |-> "ok", out |-> <<initCommitSigMessage>>,
             db |-> saveChannel(d, c2, NoTransaction)]

RecvInitialCommit(n) ==
    /\ rpc[n] = "awaitInitialCommit" /\ sIn[n] # <<>>
    /\ \E writeOk, importOk, saveOk \in MayFail :
         LET r == ProcessInitialCommit(db[n], rch[n], Head(sIn[n]), writeOk, importOk, saveOk)
         IN HandlerReturn(n, "open", r.exit, r.out, r.db)
    /\ UNCHANGED <<ppc, pch, ploc, pres, keyCtr>>
    /\ UNCHANGED <<kvars, cvars, gvars>>

\* The funder reads the InitialCommitmentSignature, validates its own first
\* commitment, persists the channel as Open and publishes the funding
\* transaction.
RecvCommitSig(n) ==
    /\ ppc[n] = "awaitCommitSig" /\ sOut[Other(n)] # <<>>
    /\ LET m == Head(sOut[Other(n)])
           c == pch[n]
           b == buildCommitmentTransaction(c, TRUE)
           commitmentTx ==
               [b.tx EXCEPT !.SignatureScript = OrderedScriptSig(c, b.sig, m.Signature)]
           c1 == [c EXCEPT !.CommitmentTx = commitmentTx, !.Status = ChannelStatusOpen]
           Abandon(result, msgs) ==
               CommandReturn(n, "open", result, msgs, db[n], hist, TRUE)
       IN IF m.type = "ERROR"
            THEN Abandon("remote error", <<>>)
          ELSE IF m.type # "INITIAL_COMMIT_SIGNATURE"
            THEN Abandon("wrong message type", <<ErrorMsg("Invalid message type")>>)
          ELSE IF b.err # "" \/ ~validateCommitmentSignature(c, commitmentTx)
            THEN Abandon("invalid commitment signature",
                         <<ErrorMsg("Invalid commitment signature")>>)
          ELSE \E saveOk \in MayFail :
                 CommandReturn(n, "open", IF saveOk THEN "ok" ELSE "save failed", <<>>,
                               IF saveOk THEN saveChannel(db[n], c1, NoTransaction)
                                         ELSE db[n],
                               hist, TRUE)
    /\ UNCHANGED <<rpc, rch, rloc, rres, keyCtr>>
    /\ UNCHANGED <<kvars, cvars, gvars>>

-----------------------------------------------------------------------------
(***************************************************************************)
(* Spec: two nodes, one channel                                            *)
(***************************************************************************)

\* No call of the commitment builder on its own.
NoCall == [called |-> FALSE, forLocalNode |-> FALSE,
           ret |-> [err |-> "", tx |-> NoTx, sig |-> NoSig]]
CInit == cch = BlankChannel /\ cres = NoCall

\* The calls of readMessageWithTimeout made on one stream, in order.
MaxReads == 3
Reads == 1..MaxReads

\* A fresh stream: no call made, nothing written, not closed.
GInit ==
    /\ readerPc = [i \in Reads |-> "none"]
    /\ readerGot = [i \in Reads |-> "none"]
    /\ selectOf = 0
    /\ callRet = [i \in Reads |-> "none"]
    /\ wire = 0
    /\ streamClosed = FALSE

Init == KInit /\ NInit /\ CInit /\ GInit

Next ==
    \/ \E n \in Node, amount \in FundingAmounts : OpenChannel(n, amount)
    \/ \E n \in Node : RecvChannelOpen(n)
    \/ \E n \in Node : RecvChannelAccept(n)
    \/ \E n \in Node : RecvInitialCommit(n)
    \/ \E n \in Node : RecvCommitSig(n)
    \/ \E n \in Node, amount \in PaymentAmounts : SendPayment(n, amount)
    \/ \E n \in Node : RecvUpdateProposal(n)
    \/ \E n \in Node : LockAndProcessProposal(n)
    \/ \E n \in Node : RecvAccept(n)
    \/ \E n \in Node : RecvFinalize(n)
    \/ \E n \in Node : ReadTimeout(n)
    \/ \E n \in Node : CommandTimeout(n)
    \/ \E n \in Node, kind \in Deviations : RemoteDeviates(n, kind)
    \/ \E n \in Node : RawProposal(n)

Spec == Init /\ [][Next]_vars

SpecKmutex == Init /\ [][KNext]_vars

\* The scheduler runs every goroutine that can take a step; a goroutine
\* blocked in sync.Mutex.Lock is handed the mutex once it has waited long
\* enough (the starvation mode of sync.Mutex), so it cannot be overtaken for
\* ever by goroutines that lock and unlock the same mutex; and every holder
\* eventually calls Unlock.  A task is free never to call Lock.
KmutexFairness(t) ==
    /\ WF_vars(LockLoadOrStore(t))
    /\ SF_vars(LockMutexLock(t))
    /\ WF_vars(LockCompare(t))
    /\ WF_vars(LockRetry(t))
    /\ WF_vars(UnlockLoad(t))
    /\ WF_vars(UnlockDelete(t))
    /\ WF_vars(UnlockMutexUnlock(t))

SpecKmutexLive == Init /\ [][KNext]_vars /\ \A t \in Tasks : KmutexFairness(t)

-----------------------------------------------------------------------------
(***************************************************************************)
(* SpecStore                                                               *)
(***************************************************************************)

\* saveChannel(db, channel, transaction) is called and returns; cres keeps
\* whether it returned an error and which of its error returns was taken.
StoreSave(n, channel, transaction, fault) ==
    /\ LET r == saveChannelFaulty(db[n], channel, transaction, fault)
       IN /\ db' = [db EXCEPT ![n] = r.db]
          /\ cres' = [called |-> TRUE, err |-> r.err,
                      fault |-> IF r.err THEN fault ELSE "none"]
    /\ UNCHANGED <<lock, rpc, rch, rloc, rres, ppc, pch, ploc, pres, sPeer, sIn, sOut,
                   sClosed, sRaw, keyCtr, hist>>
    /\ UNCHANGED <<kvars, cch, gvars>>

StoreNext ==
    \E channel \in SampleChannels, transaction \in SampleTransactions, fault \in SaveFaults :
        StoreSave(Funder, channel, transaction, fault)

SpecStore == Init /\ [][StoreNext]_vars

-----------------------------------------------------------------------------
(***************************************************************************)
(* SpecOpen: the inbound stream handler against a peer of its own making   *)
(*                                                                         *)
(* The peer opens a stream to the fundee and writes what it likes, or      *)
(* nothing: handleNewStream and handleOpenChannelMessage run against it.   *)
(***************************************************************************)

MaxStreams == 2
Fundee == "B"
MalloryPayoutScript == 3

\* ChannelOpen messages on both sides of every limit, with and without
\* parseable keys and payout script; first messages of other types.
OpenDustLimits == {MaxAcceptibleDustLimit, MaxAcceptibleDustLimit + 1}
OpenDelays == {MaxAcceptibleChannelDelay, MaxAcceptibleChannelDelay + 1}
OpenFees == {MinAcceptibleFeePerByte - 1, MinAcceptibleFeePerByte}
RawChannelOpens ==
    {[BlankMsg EXCEPT !.type = "CHANNEL_OPEN", !.DustLimit = du, !.Delay = dl,
                      !.FeePerByte = f, !.ChannelPubkey = cp, !.RevocationPubkey = rp,
                      !.PayoutScript = ps] :
        du \in OpenDustLimits, dl \in OpenDelays, f \in OpenFees,
        cp \in {Pub(MalloryPrivkey), 0}, rp \in {Pub(MalloryPrivkey + 1), 0},
        ps \in {MalloryPayoutScript, NoScript}}
RawFirstMessages ==
    RawChannelOpens
    \cup {[BlankMsg EXCEPT !.type = t] : t \in {"CHANNEL_ACCEPT", "FINALIZE_UPDATE", "ERROR"}}

\* Second messages: InitialCommitment with a well-formed or malformed txid
\* and an amount at or above the dust limit, an Error, another type.
RawSecondMessages ==
    {[BlankMsg EXCEPT !.type = "INITIAL_COMMIT", !.FundingTxid = t, !.FundingIndex = i,
                      !.InitialFundingAmount = a] :
        t \in {WalletFundingTxid, MalformedHash}, i \in {0, 1},
        a \in {MaxAcceptibleDustLimit, 10 * MaxAcceptibleDustLimit}}
    \cup {ErrorMsg("abort"), [BlankMsg EXCEPT !.type = "CHANNEL_ACCEPT"]}

\* The peer opens a stream to node n and writes a first message, or none.
RawStream(n) ==
    /\ n = Fundee
    /\ hist.opens < MaxStreams
    /\ sPeer[n] = NoPeer /\ rpc[n] = "idle"
    /\ \E first \in {<<>>} \cup {<<m>> : m \in RawFirstMessages} :
         sIn' = [sIn EXCEPT ![n] = first]
    /\ sPeer' = [sPeer EXCEPT ![n] = Mallory]
    /\ sRaw' = [sRaw EXCEPT ![n] = TRUE]
    /\ hist' = [hist EXCEPT !.opens = @ + 1]
    /\ UNCHANGED <<db, lock, rpc, rch, rloc, rres, ppc, pch, ploc, pres, sOut, sClosed,
                   keyCtr>>
    /\ UNCHANGED <<kvars, cvars, gvars>>

\* handleNewStream, `default:` the first message is neither a ChannelOpen
\* nor a ChannelUpdateProposal: it is logged and the function returns; it
\* writes nothing and does not close the stream.
RecvOtherFirst(n) ==
    /\ rpc[n] = "idle" /\ sPeer[n] # NoPeer /\ ~sClosed[n] /\ sIn[n] # <<>>
    /\ Head(sIn[n]).type \notin {"CHANNEL_OPEN", "CHANNEL_UPDATE_PROPOSAL"}
    /\ rpc' = [rpc EXCEPT ![n] = "returned"]
    /\ rres' = [rres EXCEPT ![n] = [exit |-> "invalid message type", sent |-> <<>>]]
    /\ sIn' = [sIn EXCEPT ![n] = Tail(@)]
    /\ UNCHANGED <<db, lock, rch, rloc, ppc, pch, ploc, pres, sPeer, sOut, sClosed, sRaw,
                   keyCtr, hist>>
    /\ UNCHANGED <<kvars, cvars, gvars>>

\* The peer resets the stream: a handler still in the first ReadMsg of
\* handleNewStream gets an error and returns.
StreamReset(n) ==
    /\ sRaw[n] /\ sPeer[n] # NoPeer /\ sIn[n] = <<>>
    /\ rpc[n] \in {"idle", "returned"}
    /\ rpc' = [rpc EXCEPT ![n] = "idle"]
    /\ rres' = [rres EXCEPT ![n] = IF rpc[n] = "idle"
                                     THEN [exit |-> "read error", sent |-> <<>>]
                                     ELSE @]
    /\ FreeStream(n)
    /\ UNCHANGED <<db, lock, rch, rloc, ppc, pch, ploc, pres, keyCtr, hist>>
    /\ UNCHANGED <<kvars, cvars, gvars>>

\* The peer answers the ChannelAccept.
RawSecond(n) ==
    /\ sRaw[n] /\ rpc[n] = "awaitInitialCommit" /\ sIn[n] = <<>>
    /\ \E m2 \in RawSecondMessages : sIn' = [sIn EXCEPT ![n] = <<m2>>]
    /\ UNCHANGED <<db, lock, rpc, rch, rloc, rres, ppc, pch, ploc, pres, sPeer, sOut,
                   sClosed, sRaw, keyCtr, hist>>
    /\ UNCHANGED <<kvars, cvars, gvars>>

\* The steps of the handler of node n.
OpenHandlerStep(n) ==
    \/ RecvChannelOpen(n)
    \/ RecvOtherFirst(n)
    \/ RecvInitialCommit(n)
    \/ ReadTimeout(n)

OpenNext ==
    \/ \E n \in Node : RawStream(n)
    \/ \E n \in Node : RecvChannelOpen(n)
    \/ \E n \in Node : RecvOtherFirst(n)
    \/ \E n \in Node : StreamReset(n)
    \/ \E n \in Node : RawSecond(n)
    \/ \E n \in Node : RecvInitialCommit(n)
    \/ \E n \in Node : ReadTimeout(n)

SpecOpen == Init /\ [][OpenNext]_vars

\* The handler goroutine is scheduled and its timer fires: every step of the
\* handler that stays possible is eventually taken.  Nothing obliges the
\* peer to write or to reset the stream.
SpecOpenLive == Init /\ [][OpenNext]_vars /\ \A n \in Node : WF_vars(OpenHandlerStep(n))

-----------------------------------------------------------------------------
(***************************************************************************)
(* SpecCommit: buildCommitmentTransaction on its own                       *)
(***************************************************************************)

\* The record one party of an open channel holds: the funder (inbound =
\* FALSE) generated keys 1 and 2, the fundee keys 3 and 4; the escrow script
\* lists the funder's channel pubkey first.
MaxCommitFeePerByte == 6
CommitFundingOutpoint == 50
CommitRecord(inbound, localBalance, remoteBalance, feePerByte, dustLimit) ==
    LET mine == IF inbound THEN 3 ELSE 1
        theirs == IF inbound THEN 1 ELSE 3
    IN [BlankChannel EXCEPT
          !.ID = ChannelIDOf(Pub(1), Pub(3)),
          !.Status = ChannelStatusOpen,
          !.Inbound = inbound,
          !.RemotePeerID = IF inbound THEN "A" ELSE "B",
          !.LocalPrivkey = mine,
          !.LocalRevocationPrivkey = mine + 1,
          !.RemotePubkey = Pub(theirs),
          !.RemoteRevocationPubkey = Pub(theirs + 1),
          !.LocalPayoutScript = IF inbound THEN WalletPayoutScript("B")
                                           ELSE WalletPayoutScript("A"),
          !.RemotePayoutScript = IF inbound THEN WalletPayoutScript("A")
                                            ELSE WalletPayoutScript("B"),
          !.Delay = DefaultChannelDelay,
          !.FeePerByte = feePerByte,
          !.DustLimit = dustLimit,
          !.LocalBalance = localBalance,
          !.RemoteBalance = remoteBalance,
          !.FundingOutpoint = CommitFundingOutpoint,
          !.RedeemScript = buildP2SHAddress(Pub(1), Pub(3))]

\* Balances at, just above and well above the dust limit.
SampleBalances(dustLimit) == {0, dustLimit, dustLimit + 1, 5 * dustLimit}
SampleCommitChannels ==
    {CommitRecord(inbound, l, r, f, DefaultDustLimit) :
        inbound \in BOOLEAN, l \in SampleBalances(DefaultDustLimit),
        r \in SampleBalances(DefaultDustLimit), f \in 1..MaxCommitFeePerByte}

\* The record the other party of the channel holds when both are in step.
Mirrored(c) ==
    CommitRecord(~c.Inbound, c.RemoteBalance, c.LocalBalance, c.FeePerByte, c.DustLimit)

InitCommit == KInit /\ NInit /\ GInit /\ cch \in SampleCommitChannels /\ cres = NoCall

\* c.buildCommitmentTransaction(forLocalNode, params); rerun tells that the
\* call before this one was made with the same flag on the same record.
BuildCommitment(forLocalNode) ==
    /\ cres' = [called |-> TRUE, forLocalNode |-> forLocalNode,
                ret |-> buildCommitmentTransaction(cch, forLocalNode),
                rerun |-> cres.called /\ cres.forLocalNode = forLocalNode]
    /\ UNCHANGED cch
    /\ UNCHANGED <<kvars, nvars, gvars>>

\* The node builds its own commitment and assembles the scriptSig from its
\* signature and the one the remote party made for it (the Signature field
\* of the ChannelUpdateProposal), as the update handler does.
AssembleScriptSig ==
    /\ LET b == buildCommitmentTransaction(cch, TRUE)
           remoteSig == buildCommitmentTransaction(Mirrored(cch), FALSE).sig
       IN /\ b.err = ""
          /\ cres' = [called |-> TRUE, forLocalNode |-> TRUE,
                      ret |-> [b EXCEPT !.tx.SignatureScript =
                                           OrderedScriptSig(cch, b.sig, remoteSig)],
                      rerun |-> cres.called /\ cres.forLocalNode]
    /\ UNCHANGED cch
    /\ UNCHANGED <<kvars, nvars, gvars>>

CommitNext ==
    \/ \E forLocalNode \in BOOLEAN : BuildCommitment(forLocalNode)
    \/ AssembleScriptSig

SpecCommit == InitCommit /\ [][CommitNext]_vars

-----------------------------------------------------------------------------
(***************************************************************************)
(* SpecCodec: serializeChannel and deserializeChannel on sample records    *)
(*                                                                         *)
(* The records are those a node holds: an outgoing channel before the      *)
(* ChannelAccept (no remote key and no channel address yet), and channels  *)
(* of either direction in every status, created at different times, with   *)
(* up to NumCodecKeys revocation keys of the remote party stored.          *)
(***************************************************************************)

NumCodecKeys == 2
CodecRevocationKeys == {4 + i : i \in 1..NumCodecKeys}
CodecTimes == {ZeroTime, Now, [wall |-> 9, mono |-> 0]}

CodecBase ==
    [BlankChannel EXCEPT !.AddressID = PayeeAddressID, !.RemotePeerID = "B",
                         !.Delay = DefaultChannelDelay,
                         !.FeePerByte = DefaultFeePerByte,
                         !.DustLimit = DefaultDustLimit,
                         !.LocalPrivkey = 3, !.LocalRevocationPrivkey = 4,
                         !.LocalPayoutScript = WalletPayoutScript("A"),
                         !.LocalBalance = 10000]

\* The revocation map after the keys of K were stored.
CodecRevocationMap(c, K) ==
    LET Addr(k) == buildBreachRemedyAddress(Pub(k), Pub(c.LocalPrivkey), c.RemotePubkey,
                                            c.Delay)
    IN [a \in {Addr(k) : k \in K} |-> CHOOSE k \in K : Addr(k) = a]

SampleCodecChannels ==
    {[CodecBase EXCEPT !.CreationDate = t] : t \in CodecTimes}
    \cup
    {LET c == [CodecBase EXCEPT !.ID = ChannelIDOf(Pub(3), Pub(1)),
                                !.Status = st, !.CreationDate = t, !.Inbound = inbound,
                                !.RemotePubkey = Pub(1),
                                !.RemoteRevocationPubkey = Pub(2),
                                !.RemotePayoutScript = WalletPayoutScript("B"),
                                !.FundingTxid = WalletFundingTxid,
                                !.FundingOutpoint =
                                    WalletFundingOutpoint(WalletFundingTxid, 0),
                                !.TransactionCount = Cardinality(K),
                                !.ChannelAddress = NewAddressScriptHash(<<Pub(3), Pub(1)>>),
                                !.RedeemScript = buildP2SHAddress(Pub(3), Pub(1))]
     IN [c EXCEPT !.RemoteRevocationPrivkeys = CodecRevocationMap(c, K)] :
        st \in ChannelStatuses, t \in CodecTimes, inbound \in BOOLEAN,
        K \in SUBSET CodecRevocationKeys}

InitCodec == KInit /\ NInit /\ GInit /\ cch \in SampleCodecChannels /\ cres = NoCall

\* serializeChannel(c): SerializeCompressed of a zero public key, Serialize of
\* a zero private key and String() of a nil address dereference nil and
\* panic.
CodecSerialize ==
    /\ ~cres.called
    /\ cres' = IF \/ cch.RemotePubkey = 0 \/ cch.RemoteRevocationPubkey = 0
                  \/ cch.LocalPrivkey = 0 \/ cch.LocalRevocationPrivkey = 0
                  \/ cch.ChannelAddress = NoAddress
                 THEN [called |-> TRUE, stage |-> "panic"]
                 ELSE [called |-> TRUE, stage |-> "serialized",
                       ser |-> serializeChannel(cch)]
    /\ UNCHANGED cch
    /\ UNCHANGED <<kvars, nvars, gvars>>

\* deserializeChannel(ser, params) on what serializeChannel returned.
CodecDeserialize ==
    /\ cres.called /\ cres.stage = "serialized"
    /\ cres' = [called |-> TRUE, stage |-> "deserialized",
                ret |-> deserializeChannel(cres.ser, MainNetParams)]
    /\ UNCHANGED cch
    /\ UNCHANGED <<kvars, nvars, gvars>>

CodecNext ==
    \/ CodecSerialize
    \/ CodecDeserialize

SpecCodec == InitCodec /\ [][CodecNext]_vars

-----------------------------------------------------------------------------
(***************************************************************************)
(* SpecStatus: update exchanges on stored records of every status          *)
(*                                                                         *)
(* Each node's store holds its record of one channel, saved by saveChannel *)
(* with some status: the funder A owns 8000 of it, the fundee B 2000.      *)
(***************************************************************************)

StatusFunderBalance == 8000
StatusFundeeBalance == 2000
StatusRecord(inbound, st) ==
    LET c == CommitRecord(inbound,
                          IF inbound THEN StatusFundeeBalance ELSE StatusFunderBalance,
                          IF inbound THEN StatusFunderBalance ELSE StatusFundeeBalance,
                          DefaultFeePerByte, DefaultDustLimit)
    IN [c EXCEPT !.Status = st, !.CreationDate = Now,
                 !.ChannelAddress = NewAddressScriptHash(c.RedeemScript)]

InitStatus ==
    /\ KInit /\ CInit /\ GInit
    /\ \E st \in [Node -> ChannelStatuses] :
          db = [n \in Node |->
                  saveChannel(EmptyDB, StatusRecord(n # Funder, st[n]), NoTransaction)]
    /\ lock = [n \in Node |-> {}]
    /\ rpc = [n \in Node |-> "idle"]
    /\ rch = [n \in Node |-> BlankChannel]
    /\ rloc = [n \in Node |-> BlankLoc]
    /\ rres = [n \in Node |-> NoResult]
    /\ ppc = [n \in Node |-> "idle"]
    /\ pch = [n \in Node |-> BlankChannel]
    /\ ploc = [n \in Node |-> BlankLoc]
    /\ pres = [n \in Node |-> "none"]
    /\ sPeer = [n \in Node |-> NoPeer]
    /\ sIn = [n \in Node |-> <<>>]
    /\ sOut = [n \in Node |-> <<>>]
    /\ sClosed = [n \in Node |-> FALSE]
    /\ sRaw = [n \in Node |-> FALSE]
    /\ keyCtr = [n \in Node |-> 0]
    /\ hist = [opens |-> MaxOpens, payments |-> 0, faults |-> 0, failed |-> FALSE,
               ok |-> [n \in Node |-> EmptyMap], funding |-> 0,
               disclosed |-> [n \in Node |-> {}], keyed |-> [n \in Node |-> <<>>]]

StatusNext ==
    \/ \E n \in Node, amount \in PaymentAmounts : SendPayment(n, amount)
    \/ \E n \in Node : RecvUpdateProposal(n)
    \/ \E n \in Node : LockAndProcessProposal(n)
    \/ \E n \in Node : RecvAccept(n)
    \/ \E n \in Node : RecvFinalize(n)
    \/ \E n \in Node : ReadTimeout(n)
    \/ \E n \in Node : CommandTimeout(n)

SpecStatus == InitStatus /\ [][StatusNext]_vars

-----------------------------------------------------------------------------
(***************************************************************************)
(* readMessageWithTimeout and the goroutine it starts                      *)
(***************************************************************************)

\* Messages the peer writes to the stream.
MaxMessages == 2

\* A handler calls readMessageWithTimeout(stream, timeout): the goroutine is
\* started on reader.ReadMsg and the caller enters the select.
ReadCall ==
    /\ selectOf = 0 /\ ~streamClosed
    /\ \E i \in Reads :
         /\ readerPc[i] = "none"
         /\ \A j \in Reads : j < i => readerPc[j] # "none"
         /\ readerPc' = [readerPc EXCEPT ![i] = "ReadMsg"]
         /\ selectOf' = i
    /\ UNCHANGED <<readerGot, callRet, wire, streamClosed>>
    /\ UNCHANGED <<kvars, nvars, cvars>>

\* The remote peer writes a message.
PeerWrite ==
    /\ ~streamClosed /\ wire < MaxMessages
    /\ wire' = wire + 1
    /\ UNCHANGED <<readerPc, readerGot, selectOf, callRet, streamClosed>>
    /\ UNCHANGED <<kvars, nvars, cvars>>

\* `err = reader.ReadMsg(&message)` returns in the goroutine of call i: with
\* a message when one is there, with an error once the stream is closed.
ReaderReadMsg(i) ==
    /\ readerPc[i] = "ReadMsg"
    /\ wire > 0 \/ streamClosed
    /\ readerGot' = [readerGot EXCEPT ![i] = IF wire > 0 THEN "message" ELSE "error"]
    /\ wire' = IF wire > 0 THEN wire - 1 ELSE wire
    /\ readerPc' = [readerPc EXCEPT ![i] = "send"]
    /\ UNCHANGED <<selectOf, callRet, streamClosed>>
    /\ UNCHANGED <<kvars, nvars, cvars>>

\* `resp <- struct{}{}` meets `case <-resp:` of the same call: the goroutine
\* ends and the call returns what was read.  `resp` is made without a
\* buffer, so the send completes only while the caller waits in the select.
Handover(i) ==
    /\ readerPc[i] = "send" /\ selectOf = i
    /\ readerPc' = [readerPc EXCEPT ![i] = "done"]
    /\ selectOf' = 0
    /\ callRet' = [callRet EXCEPT ![i] = readerGot[i]]
    /\ UNCHANGED <<readerGot, wire, streamClosed>>
    /\ UNCHANGED <<kvars, nvars, cvars>>

\* `case <-ticker.C:` the call returns the timeout error; its goroutine and
\* its channel are left as they are.
TickerFires(i) ==
    /\ selectOf = i
    /\ selectOf' = 0
    /\ callRet' = [callRet EXCEPT ![i] = "timeout"]
    /\ UNCHANGED <<readerPc, readerGot, wire, streamClosed>>
    /\ UNCHANGED <<kvars, nvars, cvars>>

\* The handler returns (`defer stream.Close()`) or the peer resets the stream.
StreamClose ==
    /\ ~streamClosed /\ selectOf = 0
    /\ streamClosed' = TRUE
    /\ UNCHANGED <<readerPc, readerGot, selectOf, callRet, wire>>
    /\ UNCHANGED <<kvars, nvars, cvars>>

ReaderNext ==
    \/ ReadCall
    \/ PeerWrite
    \/ \E i \in Reads : ReaderReadMsg(i)
    \/ \E i \in Reads : Handover(i)
    \/ \E i \in Reads : TickerFires(i)
    \/ StreamClose

SpecReader == Init /\ [][ReaderNext]_vars

\* The scheduler runs every goroutine that can take a step, and an armed
\* ticker fires.  Nothing obliges the peer to write or anybody to close the
\* stream.
ReaderFairness(i) ==
    /\ WF_vars(ReaderReadMsg(i))
    /\ WF_vars(Handover(i))
    /\ WF_vars(TickerFires(i))

SpecReaderLive == Init /\ [][ReaderNext]_vars /\ \A i \in Reads : ReaderFairness(i)

-----------------------------------------------------------------------------
(***************************************************************************)
(* Properties                                                              *)
(***************************************************************************)

\* The open channels of node n as GetChannel reads them back.
OpenRecords(n) == {GetChannel(db[n], i).ch : i \in DOMAIN db[n].open}

\* The channel a handler or a command of node n holds in memory after it
\* has mutated it.
InMemory(n) ==
    (IF rpc[n] = "awaitFinalize" THEN {rch[n]} ELSE {})
    \cup (IF ppc[n] # "idle" THEN {pch[n]} ELSE {})

Conserved(c) ==
    /\ c.LocalBalance + c.RemoteBalance = hist.funding
    /\ c.LocalBalance >= 0
    /\ c.RemoteBalance >= 0

\* C1: in every persisted record and in every in-memory channel after a
\* mutation (the fundee's handling of InitialCommitment, the responder's
\* handling of ChannelUpdateProposal, the proposer's SendPayment), the two
\* balances add up to the funding amount fixed at open and neither is
\* negative.
BalanceConservation ==
    \A n \in Node :
        /\ \A c \in OpenRecords(n) : Conserved(c)
        /\ \A c \in InMemory(n) : Conserved(c)

\* C1 witness: after updates in both directions (500 from A, then 5 from B)
\* both records are persisted with the balances moved.
BalancesMovedBothWays ==
    /\ \E c \in OpenRecords("A") : c.LocalBalance = 9505 /\ c.RemoteBalance = 495
    /\ \E c \in OpenRecords("B") : c.LocalBalance = 495 /\ c.RemoteBalance = 9505

\* The second message read by the responder is a FinalizeUpdate that reveals
\* the key of the revocation pubkey held before the update.
ValidFinalizeReceived(n) ==
    /\ rpc[n] = "awaitFinalize"
    /\ sIn[n] # <<>>
    /\ Head(sIn[n]).type = "FINALIZE_UPDATE"
    /\ Pub(Head(sIn[n]).RevocationPrivkey) = rloc[n].old

\* What database d holds of channel id: its record and its journal entries.
ChannelSnapshot(d, id) ==
    [open |-> IF id \in DOMAIN d.open THEN {d.open[id]} ELSE {},
     closed |-> IF id \in DOMAIN d.closed THEN {d.closed[id]} ELSE {},
     txs |-> {d.txs[t] : t \in {u \in DOMAIN d.txs : d.txs[u].ChannelID = id}}]

\* C3: the exchange started by a received ChannelUpdateProposal leaves what
\* the responder has persisted of the channel exactly as it was before the
\* proposal was processed, while it is in progress and when it ends for any
\* reason other than the receipt of a valid FinalizeUpdate.
ResponderFailureAtomicity ==
    [][\A n \in Node :
          /\ (rpc'[n] = "awaitFinalize"
              => ChannelSnapshot(db'[n], rch'[n].ID)
                   = ChannelSnapshot(rloc'[n].before, rch'[n].ID))
          /\ (rpc[n] = "lock" /\ rpc'[n] = "idle" => db'[n] = db[n])
          /\ (/\ rpc[n] = "idle" /\ sIn[n] # <<>> /\ sIn'[n] # sIn[n]
              /\ Head(sIn[n]).type = "CHANNEL_UPDATE_PROPOSAL"
              => db'[n] = db[n])
          /\ (rpc[n] = "awaitFinalize" /\ rpc'[n] = "idle" /\ ~ValidFinalizeReceived(n)
              => /\ db'[n] = db[n]
                 /\ ChannelSnapshot(db'[n], rch[n].ID)
                      = ChannelSnapshot(rloc[n].before, rch[n].ID))]_vars

\* C3 witness: a responder that had sent its UpdateProposalAccept has ended
\* the exchange on a revealed key that does not match.
ResponderAbortedOnBadKey ==
    \E n \in Node :
        /\ rres[n].exit = "invalid revocation privkey"
        /\ Len(rres[n].sent) = 1
        /\ rres[n].sent[1].type = "UPDATE_PROPOSAL_ACCEPT"
        /\ OpenRecords(n) # {}

\* C4: a proposal for a known channel from its remote party whose amount is
\* not in 0 < amount <= remote_balance ends with the single reply
\* Error("Invalid amount") and changes no record on either side; one whose
\* amount is in that range, remote_balance included, passes the guard.
AmountGuard ==
    [][\A n \in Node :
          LET m == rloc[n].msg
              got == GetChannel(db[n], m.ChannelID)
          IN (rpc[n] = "lock" /\ rpc'[n] # "lock" /\ got.ok
                /\ got.ch.RemotePeerID = sPeer[n])
             => IF 0 < m.Amount /\ m.Amount <= got.ch.RemoteBalance
                  THEN rres'[n].exit # "invalid amount" \/ rpc'[n] = "awaitFinalize"
                  ELSE /\ rpc'[n] = "idle"
                       /\ rres'[n].exit = "invalid amount"
                       /\ rres'[n].sent = <<ErrorMsg("Invalid amount")>>
                       /\ db' = db
                       /\ lock' = lock]_vars

\* C4 witness: a responder has rejected a proposal for its open channel with
\* Error("Invalid amount").
ProposalRejectedForAmount ==
    \E n \in Node :
        /\ rres[n].exit = "invalid amount"
        /\ rres[n].sent = <<ErrorMsg("Invalid amount")>>
        /\ OpenRecords(n) # {}

PersistedCount(d, id) == IF id \in DOMAIN d.open THEN d.open[id].TransactionCount ELSE 0

ResponderCompletes(n) == rpc[n] = "awaitFinalize" /\ rpc'[n] = "idle" /\ rres'[n].exit = "ok"
ProposerCompletes(n) == ppc[n] = "awaitAccept" /\ ppc'[n] = "idle" /\ pres'[n] = "ok"

\* C5: the persisted transaction_count of a channel never decreases; it
\* changes only in the step in which a party completes an update exchange
\* successfully, which is the step of its durable write, and that step
\* increases it by exactly 1.
TransactionCountSteps ==
    [][\A n \in Node :
          /\ \A id \in DOMAIN db[n].open :
                /\ id \in DOMAIN db'[n].open
                /\ PersistedCount(db'[n], id) >= PersistedCount(db[n], id)
                /\ PersistedCount(db'[n], id) # PersistedCount(db[n], id)
                   => /\ PersistedCount(db'[n], id) = PersistedCount(db[n], id) + 1
                      /\ \/ ResponderCompletes(n) /\ rch[n].ID = id
                         \/ ProposerCompletes(n) /\ pch[n].ID = id
          /\ ResponderCompletes(n)
             => PersistedCount(db'[n], rch[n].ID) = PersistedCount(db[n], rch[n].ID) + 1
          /\ ProposerCompletes(n)
             => PersistedCount(db'[n], pch[n].ID) = PersistedCount(db[n], pch[n].ID) + 1]_vars

\* C5 witness: both parties have completed two update exchanges and both
\* persisted counts are 2.
BothCountedTwo ==
    \E a \in OpenRecords("A"), b \in OpenRecords("B") :
        /\ a.ID = b.ID
        /\ CompletedUpdates(hist, "A", a.ID) = 2 /\ CompletedUpdates(hist, "B", a.ID) = 2
        /\ a.TransactionCount = 2 /\ b.TransactionCount = 2

\* C6: in every durable snapshot the number of journal entries of a channel
\* equals its transaction_count.
JournalMatchesCount ==
    \A n \in Node : \A id \in DOMAIN db[n].open :
        Cardinality({t \in DOMAIN db[n].txs : db[n].txs[t].ChannelID = id})
            = db[n].open[id].TransactionCount

\* No exchange was aborted and none is in progress.
Quiescent ==
    /\ ~hist.failed
    /\ \A n \in Node : rpc[n] = "idle" /\ ppc[n] = "idle" /\ sPeer[n] = NoPeer

\* The revocation pubkeys that keyed the commitments node n has persisted
\* and since replaced.
SupersededKeys(n) ==
    {hist.keyed[n][i] : i \in 1..(Len(hist.keyed[n]) - 1)}

\* C7: when no exchange was aborted and none is in progress, every entry
\* remote_revocation_privkeys[addr] = k of a persisted record has addr built from (pub(k), local channel pubkey, remote channel pubkey,
\* delay), and addr is the breach address of a superseded commitment held
\* by the remote party.
StoredKeysUnlockSupersededCommitments ==
    Quiescent =>
    \A n \in Node : \A c \in OpenRecords(n) :
        \A addr \in DOMAIN c.RemoteRevocationPrivkeys :
            LET k == c.RemoteRevocationPrivkeys[addr]
            IN /\ addr = buildBreachRemedyAddress(Pub(k), Pub(c.LocalPrivkey),
                                                  c.RemotePubkey, c.Delay)
               /\ Pub(k) \in SupersededKeys(Other(n))

\* C8: when no exchange was aborted and none is in progress, no party's
\* persisted commitment has a breach output keyed to a
\* revocation secret that party has disclosed: a secret is disclosed only
\* once the commitment it keys has been superseded.
DisclosedKeysAreSuperseded ==
    Quiescent =>
    \A n \in Node : \A c \in OpenRecords(n) :
        \A i \in 1..Len(c.CommitmentTx.TxOut) :
            LET script == c.CommitmentTx.TxOut[i].PkScript
            IN script.kind = "breach"
               => \A k \in hist.disclosed[n] : script.rev # Pub(k)

\* C9: a channel id is never in both the open and the closed bucket.
OneBucketPerChannel ==
    \A n \in Node : (DOMAIN db[n].open) \cap (DOMAIN db[n].closed) = {}

\* C10: when no exchange between A and B was aborted and none is in
\* progress, the persisted records of a channel mirror each other and both
\* counts equal the number of completed updates.
RecordsMirror ==
    Quiescent
    => /\ DOMAIN db["A"].open = DOMAIN db["B"].open
       /\ \A id \in DOMAIN db["A"].open :
             LET a == GetChannel(db["A"], id).ch
                 b == GetChannel(db["B"], id).ch
             IN /\ a.LocalBalance = b.RemoteBalance
                /\ a.RemoteBalance = b.LocalBalance
                /\ a.TransactionCount = b.TransactionCount
                /\ a.TransactionCount = CompletedUpdates(hist, "A", id)
                /\ CompletedUpdates(hist, "A", id) = CompletedUpdates(hist, "B", id)

\* C10 witness: a channel of 10000 after payments of 500 and 1000 by A and
\* of 5 by B, no exchange aborted: 8505/1495 and 1495/8505, count 3.
ThreePaymentsMirrored ==
    /\ Quiescent
    /\ \E a \in OpenRecords("A"), b \in OpenRecords("B") :
          /\ a.LocalBalance = 8505 /\ a.RemoteBalance = 1495
          /\ b.LocalBalance = 1495 /\ b.RemoteBalance = 8505
          /\ a.TransactionCount = 3 /\ b.TransactionCount = 3


-----------------------------------------------------------------------------
(***************************************************************************)
(* Properties of buildCommitmentTransaction (SpecCommit)                   *)
(***************************************************************************)

\* The pre-fee values of the two outputs of the last call, its outputs of one
\* kind and its fee.
StandardValue == IF cres.forLocalNode THEN cch.RemoteBalance ELSE cch.LocalBalance
BreachValue == IF cres.forLocalNode THEN cch.LocalBalance ELSE cch.RemoteBalance
OutputsOfKind(tx, kind) == {i \in 1..Len(tx.TxOut) : tx.TxOut[i].PkScript.kind = kind}
CommitmentFee == cch.FeePerByte * EstimateSerializeSize(cres.ret.tx.TxOut)

FeeSplitExact ==
    (cres.called /\ Len(cres.ret.tx.TxOut) = 2)
        => cres.ret.tx.TxOut[1].Value + cres.ret.tx.TxOut[2].Value
             = cch.LocalBalance + cch.RemoteBalance - CommitmentFee

\* C19: with for_local = true the breach output carries local_balance under
\* (local revocation pubkey, remote channel pubkey, local channel pubkey) and
\* the direct output pays remote_balance to the remote payout script; with
\* for_local = false every role is inverted; and the transaction built is the
\* one the peer builds from its mirrored record with the flag inverted.
RoleAssignment ==
    (cres.called /\ cres.ret.err = "") =>
        LET tx == cres.ret.tx
            f == cres.forLocalNode
            share == IF Len(tx.TxOut) = 1 THEN CommitmentFee ELSE CommitmentFee \div 2
        IN /\ \A i \in OutputsOfKind(tx, "breach") :
                 /\ tx.TxOut[i].Value + share
                      = (IF f THEN cch.LocalBalance ELSE cch.RemoteBalance)
                 /\ tx.TxOut[i].PkScript.rev
                      = (IF f THEN Pub(cch.LocalRevocationPrivkey)
                              ELSE cch.RemoteRevocationPubkey)
                 /\ tx.TxOut[i].PkScript.commit
                      = (IF f THEN cch.RemotePubkey ELSE Pub(cch.LocalPrivkey))
                 /\ tx.TxOut[i].PkScript.dkey
                      = (IF f THEN Pub(cch.LocalPrivkey) ELSE cch.RemotePubkey)
           /\ \A i \in OutputsOfKind(tx, "payout") :
                 /\ tx.TxOut[i].Value + share
                      = (IF f THEN cch.RemoteBalance ELSE cch.LocalBalance)
                 /\ tx.TxOut[i].PkScript.pay
                      = (IF f THEN cch.RemotePayoutScript ELSE cch.LocalPayoutScript)
           /\ buildCommitmentTransaction(Mirrored(cch), ~f).tx
                = [tx EXCEPT !.SignatureScript = NoScriptSig]

\* C19 witness: the remote node's commitment was built from a record with
\* unequal balances, both above dust.
RemoteCommitmentBuilt ==
    /\ cres.called /\ ~cres.forLocalNode
    /\ Len(cres.ret.tx.TxOut) = 2
    /\ cch.LocalBalance # cch.RemoteBalance

\* C20: in every commitment scriptSig a node assembles, the funder's
\* signature is in the first slot and the fundee's in the second, as the
\* pubkeys are in the escrow script: an inbound node places the remote
\* signature first and its own second, an outbound node the reverse.
FunderSignsFirst ==
    (cres.called /\ cres.ret.tx.SignatureScript # NoScriptSig) =>
        LET ss == cres.ret.tx.SignatureScript
            own == Pub(cch.LocalPrivkey)
            funder == IF cch.Inbound THEN cch.RemotePubkey ELSE own
            fundee == IF cch.Inbound THEN own ELSE cch.RemotePubkey
        IN /\ ss.sig1.signer = funder /\ ss.sig2.signer = fundee
           /\ ss.redeem = <<funder, fundee>>
           /\ cch.Inbound => ss.sig1.signer = cch.RemotePubkey /\ ss.sig2.signer = own
           /\ ~cch.Inbound => ss.sig1.signer = own /\ ss.sig2.signer = cch.RemotePubkey
           /\ validateCommitmentSignature(cch, cres.ret.tx)

\* C20 witness: the fundee has assembled the scriptSig of its commitment.
FundeeAssembledScriptSig ==
    /\ cres.called /\ cch.Inbound
    /\ cres.ret.tx.SignatureScript # NoScriptSig

-----------------------------------------------------------------------------
(***************************************************************************)
(* Properties of the inbound stream handler (SpecOpen, SpecOpenLive)       *)
(***************************************************************************)

\* The step in which the handler of node n reads a first message of type t,
\* and the step in which handleOpenChannelMessage returns.
ReadsFirst(n) ==
    /\ rpc[n] = "idle" /\ sIn[n] # <<>> /\ sIn'[n] # sIn[n]
OpenHandlerReturns(n) ==
    \/ rpc[n] = "awaitInitialCommit" /\ rpc'[n] = "idle"
    \/ ReadsFirst(n) /\ Head(sIn[n]).type = "CHANNEL_OPEN" /\ rpc'[n] = "idle"
TypesOf(msgs) == [i \in 1..Len(msgs) |-> msgs[i].type]

\* C11: when the open exchange succeeds the fundee persists the channel as
\* Open, inbound, with local balance 0, remote balance the initial funding
\* amount, the funding outpoint of the InitialCommitment and transaction
\* count 0; before that its store holds no record of the channel, and the
\* handler writes at no other point.
FundeePersistsOpenChannel ==
    [][\A n \in Node :
          /\ (rpc[n] = "awaitInitialCommit" /\ rpc'[n] = "idle" /\ rres'[n].exit = "ok")
               => /\ rch[n].ID \in DOMAIN db'[n].open
                  /\ rch[n].ID \notin DOMAIN db'[n].closed
                  /\ LET c == GetChannel(db'[n], rch[n].ID).ch
                         m2 == Head(sIn[n])
                     IN /\ c.Status = ChannelStatusOpen
                        /\ c.Inbound
                        /\ c.LocalBalance = 0
                        /\ c.RemoteBalance = m2.InitialFundingAmount
                        /\ c.FundingOutpoint
                             = WalletFundingOutpoint(m2.FundingTxid, m2.FundingIndex)
                        /\ c.TransactionCount = 0
          /\ rpc'[n] = "awaitInitialCommit"
               => rch'[n].ID \notin (DOMAIN db'[n].open) \cup (DOMAIN db'[n].closed)
          /\ db'[n] # db[n]
               => rpc[n] = "awaitInitialCommit" /\ rres'[n].exit = "ok"]_vars

\* C11 witness: the fundee has completed an open exchange and holds the
\* channel, funded with ten times the dust limit at output 1.
FundeeHoldsOpenChannel ==
    /\ rres[Fundee].exit = "ok"
    /\ \E c \in OpenRecords(Fundee) :
          /\ c.Inbound /\ c.RemoteBalance = 10 * MaxAcceptibleDustLimit
          /\ c.FundingOutpoint = WalletFundingOutpoint(WalletFundingTxid, 1)

\* C12: the fundee sends ChannelAccept only on reading a ChannelOpen that
\* passes validation, InitialCommitmentSignature only on reading, after
\* that, an InitialCommitment with a well-formed funding txid, each at most
\* once, and the stream is closed when the handler returns.
FundeeMessageOrder ==
    [][\A n \in Node :
          /\ (rpc[n] = "idle" /\ rpc'[n] = "awaitInitialCommit")
               => /\ Head(sIn[n]).type = "CHANNEL_OPEN"
                  /\ ValidateChannelOpen(Head(sIn[n])) = ""
                  /\ TypesOf(rloc'[n].sent) = <<"CHANNEL_ACCEPT">>
                  /\ sOut'[n] = sOut[n] \o rloc'[n].sent
          /\ OpenHandlerReturns(n)
               => /\ TypesOf(rres'[n].sent) \in
                        {<<>>, <<"ERROR">>, <<"CHANNEL_ACCEPT">>,
                         <<"CHANNEL_ACCEPT", "ERROR">>,
                         <<"CHANNEL_ACCEPT", "INITIAL_COMMIT_SIGNATURE">>}
                  /\ (rpc[n] = "idle" => TypesOf(rres'[n].sent) \in {<<>>, <<"ERROR">>})
                  /\ (TypesOf(rres'[n].sent) = <<"CHANNEL_ACCEPT", "INITIAL_COMMIT_SIGNATURE">>
                        => /\ Head(sIn[n]).type = "INITIAL_COMMIT"
                           /\ Head(sIn[n]).FundingTxid # MalformedHash)
                  /\ (sPeer'[n] = NoPeer \/ sClosed'[n])]_vars

\* C12 witness: a handler has returned after sending both replies.
FundeeRepliedInOrder ==
    TypesOf(rres[Fundee].sent) = <<"CHANNEL_ACCEPT", "INITIAL_COMMIT_SIGNATURE">>

\* C13: the responder of an update sends its UpdateProposalAccept and then
\* waits with nothing of the update persisted (not the new balances, not
\* the rotated local revocation key, not the incremented count); what it
\* has persisted of the channel changes only in the step in which it reads
\* a FinalizeUpdate that reveals the key of the remote revocation pubkey
\* held before the update.
ResponderWritesAfterFinalize ==
    [][\A n \in Node :
          /\ rpc'[n] = "awaitFinalize"
               => LET rec == GetChannel(db'[n], rch'[n].ID).ch
                  IN /\ TypesOf(rloc'[n].sent) = <<"UPDATE_PROPOSAL_ACCEPT">>
                     /\ rec.TransactionCount = rch'[n].TransactionCount
                     /\ rec.LocalRevocationPrivkey # rch'[n].LocalRevocationPrivkey
                     /\ rec.LocalBalance # rch'[n].LocalBalance
                     /\ rec.RemoteBalance # rch'[n].RemoteBalance
          /\ (/\ rpc[n] = "awaitFinalize"
              /\ ChannelSnapshot(db'[n], rch[n].ID) # ChannelSnapshot(db[n], rch[n].ID))
               => /\ ValidFinalizeReceived(n)
                  /\ rpc'[n] = "idle" /\ rres'[n].exit = "ok"
                  /\ LET rec == GetChannel(db'[n], rch[n].ID).ch
                     IN /\ rec.TransactionCount = rch[n].TransactionCount + 1
                        /\ rec.LocalRevocationPrivkey = rch[n].LocalRevocationPrivkey
                        /\ rec.LocalBalance = rch[n].LocalBalance
                        /\ rec.RemoteBalance = rch[n].RemoteBalance]_vars

\* C13 witness: an update handler has returned nil after sending its
\* UpdateProposalAccept.
ResponderPersistedAfterFinalize ==
    \E n \in Node :
        /\ rres[n].exit = "ok"
        /\ TypesOf(rres[n].sent) = <<"UPDATE_PROPOSAL_ACCEPT">>

\* The handler of the inbound stream of node n has not returned.
HandlerRunning(n) == sPeer[n] # NoPeer /\ rpc[n] # "returned"

\* C14: a handler waiting for a message its peer never sends returns
\* (every read is guarded by the network timeout).
EveryReadTimesOut ==
    \A n \in Node : (HandlerRunning(n) /\ sIn[n] = <<>>) ~> ~HandlerRunning(n)

\* The reads guarded by readMessageWithTimeout do end.
SecondReadTimesOut ==
    \A n \in Node : (rpc[n] = "awaitInitialCommit") ~> (rpc[n] = "idle")

\* C15: a message of a type not expected at its point of the exchange (an
\* Error aside) makes the receiver answer with an Error message and end the
\* exchange without persisting anything.
UnexpectedTypeGetsError ==
    [][\A n \in Node :
          /\ (ReadsFirst(n)
               /\ Head(sIn[n]).type \notin {"CHANNEL_OPEN", "CHANNEL_UPDATE_PROPOSAL", "ERROR"})
               => /\ TypesOf(rres'[n].sent) = <<"ERROR">>
                  /\ rpc'[n] \in {"idle", "returned"}
                  /\ db' = db
          /\ (/\ rpc[n] = "awaitInitialCommit" /\ sIn[n] # <<>> /\ sIn'[n] # sIn[n]
              /\ Head(sIn[n]).type \notin {"INITIAL_COMMIT", "ERROR"})
               => /\ TypesOf(rres'[n].sent) = <<"CHANNEL_ACCEPT", "ERROR">>
                  /\ rpc'[n] = "idle"
                  /\ db' = db]_vars

\* The second reads do answer a message of another type with an Error.
UnexpectedSecondGetsError ==
    [][\A n \in Node :
          (/\ rpc[n] = "awaitInitialCommit" /\ sIn[n] # <<>> /\ sIn'[n] # sIn[n]
           /\ Head(sIn[n]).type \notin {"INITIAL_COMMIT", "ERROR"})
            => /\ TypesOf(rres'[n].sent) = <<"CHANNEL_ACCEPT", "ERROR">>
               /\ rpc'[n] = "idle"
               /\ db' = db]_vars

\* C16: a ChannelOpen is accepted (ChannelAccept sent, channel created in
\* status Opening) only if dust_limit <= 1000, delay <= 1008, fee_per_byte
\* >= 1, both pubkeys parse and the payout script is not empty, and then it
\* is accepted unless the write of the ChannelAccept fails; otherwise the
\* fundee replies with an Error, creates no channel and persists nothing.
ChannelOpenAcceptance ==
    [][\A n \in Node :
          (ReadsFirst(n) /\ Head(sIn[n]).type = "CHANNEL_OPEN")
           => LET m == Head(sIn[n])
                  acceptable == /\ m.DustLimit <= 1000
                                /\ m.Delay <= 6 * 24 * 7
                                /\ m.FeePerByte >= 1
                                /\ ParsePubKeyOk(m.ChannelPubkey)
                                /\ ParsePubKeyOk(m.RevocationPubkey)
                                /\ m.PayoutScript # NoScript
              IN /\ db' = db
                 /\ ~acceptable
                      => /\ rpc'[n] = "idle"
                         /\ rch'[n] = BlankChannel
                         /\ TypesOf(rres'[n].sent) = <<"ERROR">>
                 /\ acceptable
                      => \/ /\ rpc'[n] = "awaitInitialCommit"
                            /\ rch'[n].Status = ChannelStatusOpening
                            /\ TypesOf(rloc'[n].sent) = <<"CHANNEL_ACCEPT">>
                         \/ /\ rpc'[n] = "idle"
                            /\ rres'[n] = [exit |-> "write failed", sent |-> <<>>]]_vars

\* C16 witness: a ChannelOpen with dust_limit = 1000, delay = 1008 and
\* fee_per_byte = 1 has been accepted.
BoundaryChannelOpenAccepted ==
    \E n \in Node :
        /\ rpc[n] = "awaitInitialCommit"
        /\ rloc[n].msg.DustLimit = 1000
        /\ rloc[n].msg.Delay = 1008
        /\ rloc[n].msg.FeePerByte = 1
        /\ rch[n].Status = ChannelStatusOpening

-----------------------------------------------------------------------------
(***************************************************************************)
(* Properties of the channel lock                                          *)
(***************************************************************************)

HeldByHandler(n) == {l \in lock[n] : l.by = "resp"}
UpdateHandlerReturns(n) == rpc[n] \in {"lock", "awaitFinalize"} /\ rpc'[n] = "idle"

\* C21: the update handler holds the lock of the channel from before it reads
\* the record until it returns, and on every exit path (success, validation
\* error, write error, timeout, Error received) it returns with the lock
\* released, so that a later exchange on the channel can acquire it.
UpdateHandlerLockDiscipline ==
    /\ [](\A n \in Node :
            /\ rpc[n] = "awaitFinalize"
                  => HeldByHandler(n) = {[id |-> rch[n].ID, by |-> "resp"]}
            /\ rpc[n] # "awaitFinalize" => HeldByHandler(n) = {})
    /\ [][\A n \in Node : UpdateHandlerReturns(n) => HeldByHandler(n)' = {}]_vars

\* An exchange timed out at a node, and a later one on the same channel holds
\* the lock there.
LockAcquiredAfterFailedExchange ==
    \E n \in Node : /\ rres[n].exit \in {"timeout", "wrong message type", "remote error",
                                         "invalid revocation privkey", "save failed"}
                    /\ rpc[n] = "awaitFinalize"
                    /\ Locked(n, rch[n].ID)

\* C22: within one channel no two update exchanges interleave at a node: the
\* lock of a channel has one holder at a time, between the read of the
\* record and the return of the exchange the persisted record is the one the
\* exchange read, and an existing record is written only by the exchange that
\* holds its lock, so no persisted update is lost or overwritten.
NoInterleavedExchanges ==
    /\ [](\A n \in Node :
            /\ \A l1, l2 \in lock[n] : l1.id = l2.id => l1 = l2
            /\ rpc[n] = "awaitFinalize"
                  => ChannelSnapshot(db[n], rch[n].ID)
                        = ChannelSnapshot(rloc[n].before, rch[n].ID)
            /\ ppc[n] = "awaitAccept"
                  => ChannelSnapshot(db[n], pch[n].ID)
                        = ChannelSnapshot(ploc[n].before, pch[n].ID))
    /\ [][\A n \in Node : \A id \in DOMAIN db[n].open :
            ChannelSnapshot(db'[n], id) # ChannelSnapshot(db[n], id)
               => /\ Cardinality({l \in lock[n] : l.id = id}) = 1
                  /\ ~Locked(n, id)']_vars

\* A proposal for a channel waits at the lock while the node's own payment
\* on that channel is in progress.
ProposalWaitsForOwnPayment ==
    \E n \in Node : /\ rpc[n] = "lock"
                    /\ ppc[n] = "awaitAccept"
                    /\ pch[n].ID = rloc[n].msg.ChannelID
                    /\ Locked(n, pch[n].ID)

-----------------------------------------------------------------------------
(***************************************************************************)
(* Properties of the rejections of a ChannelUpdateProposal                 *)
(***************************************************************************)

\* The handler of node n returns from the step that looks the channel up.
ProposalRejected(n) == rpc[n] = "lock" /\ rpc'[n] = "idle"
FromStranger(n) ==
    LET got == GetChannel(db[n], rloc[n].msg.ChannelID)
    IN got.ok /\ got.ch.RemotePeerID # sPeer[n]

\* C23: a ChannelUpdateProposal for a channel that arrives from a peer other
\* than the channel's remote peer is answered with an Error message, the
\* exchange ends there and the persisted record is not changed.
WrongPeerGetsError ==
    [][\A n \in Node :
          (ProposalRejected(n) /\ FromStranger(n))
             => /\ TypesOf(rres'[n].sent) = <<"ERROR">>
                /\ db'[n] = db[n]]_vars

\* The handler of node n rejects the proposal at the head of its stream for
\* a channel id that does not parse, or the proposal it holds for a channel
\* id its store does not know.
MalformedIdRejected(n) ==
    /\ rpc[n] = "idle" /\ sIn[n] # <<>>
    /\ Head(sIn[n]).type = "CHANNEL_UPDATE_PROPOSAL"
    /\ Head(sIn[n]).ChannelID = MalformedHash
    /\ sIn'[n] = <<>>
UnknownIdRejected(n) ==
    ProposalRejected(n) /\ ~GetChannel(db[n], rloc[n].msg.ChannelID).ok
StreamClosed(n) == sPeer[n] = NoPeer \/ sClosed[n]

\* C24: a ChannelUpdateProposal whose channel id is malformed or unknown is
\* answered with the Error "Invalid channel ID" and nothing else; the handler
\* closes the stream, holds no lock when it returns (the lock of the unknown
\* id it took is free again) and leaves the store as it was.
InvalidChannelIdRejected ==
    [][\A n \in Node :
          (MalformedIdRejected(n) \/ UnknownIdRejected(n))
             => /\ rres'[n].sent = <<[BlankMsg EXCEPT !.type = "ERROR",
                                                       !.Message = "Invalid channel ID"]>>
                /\ rpc'[n] = "idle"
                /\ StreamClosed(n)'
                /\ HeldByHandler(n)' = {}
                /\ UnknownIdRejected(n) => ~Locked(n, rloc[n].msg.ChannelID)'
                /\ db' = db]_vars

\* A proposal for an unknown channel id was rejected and no lock is held.
UnknownChannelIdRejected ==
    \E n \in Node : /\ rres[n].exit = "unknown channel"
                    /\ TypesOf(rres[n].sent) = <<"ERROR">>
                    /\ lock[n] = {}

\* The proposal the handler of node n holds passes every check before the
\* script verification, and its signature is not the remote party's
\* signature of the commitment the proposal leads to.
CounterSignatureInvalid(n) ==
    LET m == rloc[n].msg
        got == GetChannel(db[n], m.ChannelID)
        c == [ApplyProposalAmount(got.ch, m.Amount)
                 EXCEPT !.RemoteRevocationPubkey = m.NewRevocationPubkey]
        b == buildCommitmentTransaction(c, TRUE)
    IN /\ got.ok /\ got.ch.RemotePeerID = sPeer[n]
       /\ m.Amount > 0 /\ m.Amount <= got.ch.RemoteBalance
       /\ ParsePubKeyOk(m.NewRevocationPubkey)
       /\ b.err = ""
       /\ m.Signature # [signer |-> c.RemotePubkey, digest |-> TxDigest(b.tx),
                         amt |-> c.LocalBalance + c.RemoteBalance,
                         redeem |-> c.RedeemScript]

\* C25: a commitment whose counter-signature fails script verification is
\* never installed: the responder answers with an Error and nothing else (no
\* UpdateProposalAccept), discloses no revocation key, and leaves the
\* persisted commitment, balances and keys as they were.
InvalidCommitmentNeverInstalled ==
    [][\A n \in Node :
          (rpc[n] = "lock" /\ rpc'[n] # "lock" /\ CounterSignatureInvalid(n))
             => /\ rpc'[n] = "idle"
                /\ rres'[n].sent = <<[BlankMsg EXCEPT
                                         !.type = "ERROR",
                                         !.Message = "Invalid commitment signature"]>>
                /\ hist'.disclosed[n] = hist.disclosed[n]
                /\ keyCtr'[n] = keyCtr[n]
                /\ db'[n] = db[n]]_vars

\* The remote party's proposal with a forged signature was rejected, the
\* channel still on record.
ForgedProposalRejected ==
    \E n \in Node : /\ rres[n].exit = "invalid commitment signature"
                    /\ TypesOf(rres[n].sent) = <<"ERROR">>
                    /\ DOMAIN db[n].open # {}

-----------------------------------------------------------------------------
(***************************************************************************)
(* Properties of SendPayment                                               *)
(***************************************************************************)

\* C29: SendPayment with an amount that is not positive or exceeds the local
\* balance of the channel returns the insufficient-funds error without
\* opening an exchange (no stream, no lock, no key drawn) and without
\* changing the in-memory or the persisted channel.
InsufficientFundsRejected ==
    [][\A n \in Node : \A amount \in PaymentAmounts :
          (/\ SendPayment(n, amount)
           /\ \A id \in DOMAIN db[n].open :
                 amount <= 0 \/ amount > GetChannel(db[n], id).ch.LocalBalance)
             => /\ pres'[n] = "invalid amount"
                /\ ppc'[n] = "idle"
                /\ UNCHANGED <<db, lock, pch, ploc, keyCtr, sPeer, sIn, sOut, sClosed>>
                /\ UNCHANGED <<rpc, rch, rloc, rres>>]_vars

\* A payment above the local balance of an open channel was refused.
PaymentAboveBalanceRefused ==
    \E n \in Node : /\ pres[n] = "invalid amount"
                    /\ ppc[n] = "idle"
                    /\ \E id \in DOMAIN db[n].open :
                          GetChannel(db[n], id).ch.LocalBalance < 5

-----------------------------------------------------------------------------
(***************************************************************************)
(* Properties of Kmutex: progress and the life of the map entries          *)
(***************************************************************************)

\* The tasks inside Lock(k).
Waiting(k) ==
    {t \in Tasks : tkey[t] = k /\ tpc[t] \in {"LoadOrStore", "mmLock", "compare", "retry"}}

\* The tasks that reference mutex m.
Referencing(m) == {u \in Tasks : tm[u] = m \/ tmm[u] = m}

\* C27: tasks working on distinct keys never block each other (a task blocked
\* in Lock waits on a mutex that only tasks of its own key reference); and,
\* every holder eventually calling Unlock, whenever some task is waiting in
\* Lock(k) a waiting task eventually acquires k: the holder, if there is
\* one, gives k up with the task still waiting, and from then on some task,
\* which can only be one that was waiting, comes to hold k; no task panics.
KmutexProgress ==
    /\ [](\A t \in Tasks :
            /\ tpc[t] # "panic"
            /\ (tpc[t] = "mmLock" /\ mlocked[tmm[t]])
                  => \A u \in Referencing(tmm[t]) : tkey[u] = tkey[t])
    /\ \A k \in Keys :
          /\ (Waiting(k) # {}) ~> (Waiting(k) # {} /\ Holders(k) = {})
          /\ (Waiting(k) # {} /\ Holders(k) = {}) ~> (Holders(k) # {})

\* One task holds k, another is blocked in Lock(k) on the holder's mutex,
\* while the map entry of the other key is there too.
KmutexWaiterBlocked ==
    \E t1, t2 \in Tasks :
        /\ t1 # t2
        /\ tpc[t1] = "held" /\ tkey[t2] = tkey[t1]
        /\ tpc[t2] = "mmLock" /\ tmm[t2] = tm[t1] /\ mlocked[tmm[t2]]

\* C28: Lock(k) creates the map entry of k if there is none; Unlock(k)
\* deletes it; the map holds an entry only for a key that is held or being
\* acquired (the entry is the mutex of a task that stored it and has not yet
\* deleted it), and once the last task working on k has left Unlock(k) the
\* map has no entry for k.
KmutexEntryLifecycle ==
    /\ [](\A k \in Keys :
            kmap[k] # NoMutex
               => \E t \in Tasks : /\ tkey[t] = k /\ tm[t] = kmap[k]
                                   /\ tpc[t] \in {"mmLock", "compare", "held", "Delete"})
    /\ [][\A t \in Tasks :
            /\ (tpc[t] = "LoadOrStore" /\ tpc'[t] = "mmLock" /\ kmap[tkey[t]] = NoMutex)
                  => kmap'[tkey[t]] = tm[t]
            /\ (tpc[t] = "Delete" /\ tpc'[t] = "mUnlock") => kmap'[tkey[t]] = NoMutex
            /\ (tpc[t] = "mUnlock" /\ tpc'[t] = "idle"
                   /\ \A u \in Tasks \ {t} : tkey[u] # tkey[t])
                  => kmap'[tkey[t]] = NoMutex]_vars

\* A task is leaving Unlock(k), its entry deleted, while the map already
\* holds the entry of a task that has called Lock(k) since.
KmutexEntryReplaced ==
    \E t1, t2 \in Tasks :
        /\ t1 # t2
        /\ tpc[t1] = "mUnlock" /\ tkey[t2] = tkey[t1]
        /\ kmap[tkey[t1]] = tm[t2] /\ tm[t2] # NoMutex

-----------------------------------------------------------------------------
(***************************************************************************)
(* Properties of saveChannel                                               *)
(***************************************************************************)

\* The store with the record of `channel` put into the bucket of its status
\* and, when a transaction is given, its journal entry put.
FullySaved(d, channel, transaction) ==
    LET bucketName == IF channel.Status = ChannelStatusOpen THEN "open" ELSE "closed"
        d1 == [d EXCEPT ![bucketName] =
                  [x \in (DOMAIN @) \cup {channel.ID} |->
                      IF x = channel.ID THEN serializeChannel(channel) ELSE @[x]]]
    IN IF transaction = NoTransaction
         THEN d1
         ELSE [d1 EXCEPT !.txs =
                  [x \in (DOMAIN @) \cup {transaction.ID} |->
                      IF x = transaction.ID THEN transaction ELSE @[x]]]

\* C26: saveChannel is atomic: when it returns nil the record and, if one was
\* given, the journal entry are both in the store; when it returns an error,
\* the serialization or the write of the journal entry having failed after
\* the record was put, the store is what it was before the call.
SaveChannelAtomic ==
    [][\A channel \in SampleChannels, transaction \in SampleTransactions,
         fault \in SaveFaults :
          StoreSave(Funder, channel, transaction, fault)
             => /\ cres'.err <=> \/ fault \in {"serializeChannel", "put channel"}
                                 \/ /\ transaction # NoTransaction
                                    /\ fault \in {"serializeTransaction", "put transaction"}
                /\ cres'.err => db' = db
                /\ ~cres'.err
                      => db'[Funder] = FullySaved(db[Funder], channel, transaction)]_vars

\* The write of the journal entry failed in the first call of saveChannel,
\* after the record was put, and the store holds nothing.
SaveFailedLeavesNoRecord ==
    /\ cres.called /\ cres.err
    /\ cres.fault = "put transaction"
    /\ db[Funder] = EmptyDB

-----------------------------------------------------------------------------
(***************************************************************************)
(* Properties of the codec (SpecCodec)                                     *)
(***************************************************************************)

\* Two records agree on every field, the creation time as Time.Equal has it.
SameChannel(a, b) ==
    /\ [a EXCEPT !.CreationDate = ZeroTime] = [b EXCEPT !.CreationDate = ZeroTime]
    /\ TimeEqual(a.CreationDate, b.CreationDate)

-----------------------------------------------------------------------------
(***************************************************************************)
(* Shape and repeatability of a commitment (SpecCommit)                    *)
(***************************************************************************)

\* The transaction without the scriptSig a caller put into its input.
Unsigned(tx) == [tx EXCEPT !.SignatureScript = NoScriptSig]

\* The record as it is read back from the store.
ReadBack(c) ==
    LET full == [c EXCEPT !.ChannelAddress = NewAddressScriptHash(c.RedeemScript)]
    IN deserializeChannel(serializeChannel(full), MainNetParams).ch

-----------------------------------------------------------------------------
(***************************************************************************)
(* Disclosed keys and the durable record                                   *)
(***************************************************************************)

\* C32: in every durable snapshot of a node, the stored local revocation
\* private key is none the node has disclosed to the counterparty, and the
\* stored commitment has no breach output keyed to a secret the node has
\* disclosed.
PersistedKeysUndisclosed ==
    \A n \in Node : \A c \in OpenRecords(n) :
        /\ c.LocalRevocationPrivkey \notin hist.disclosed[n]
        /\ \A i \in 1..Len(c.CommitmentTx.TxOut) :
              LET script == c.CommitmentTx.TxOut[i].PkScript
              IN script.kind = "breach"
                 => \A k \in hist.disclosed[n] : script.rev # Pub(k)

-----------------------------------------------------------------------------
(***************************************************************************)
(* The two records after aborted exchanges                                 *)
(***************************************************************************)

\* No handler and no command is running on either node.
NoExchangeInProgress ==
    \A n \in Node : rpc[n] = "idle" /\ ppc[n] = "idle" /\ sPeer[n] = NoPeer

\* C33: whenever no update exchange is in progress on a channel, be it that
\* every exchange completed or that some were aborted, the durable records
\* of the two parties agree: A.local_balance = B.remote_balance,
\* A.remote_balance = B.local_balance, A.transaction_count =
\* B.transaction_count.
RecordsAgreeWhenIdle ==
    NoExchangeInProgress
    => \A id \in (DOMAIN db["A"].open) \cap (DOMAIN db["B"].open) :
          LET a == GetChannel(db["A"], id).ch
              b == GetChannel(db["B"], id).ch
          IN /\ a.LocalBalance = b.RemoteBalance
             /\ a.RemoteBalance = b.LocalBalance
             /\ a.TransactionCount = b.TransactionCount

-----------------------------------------------------------------------------
(***************************************************************************)
(* Payments started by both parties at once                                *)
(***************************************************************************)

\* The handler of node n has read a proposal for the channel on which the
\* node's own payment awaits its reply, and waits at channelLock.Lock.
WaitsForOwnPayment(n) ==
    /\ rpc[n] = "lock"
    /\ ppc[n] = "awaitAccept"
    /\ pch[n].ID = rloc[n].msg.ChannelID
    /\ Locked(n, pch[n].ID)

\* C34: when both parties of a channel start a payment at the same time,
\* the system never reaches the state where the proposal handler of each
\* node waits for the lock its own node's payment holds while that payment
\* awaits the reply only the other node's waiting handler can send.
NoMutualLockWait ==
    ~(\A n \in Node : WaitsForOwnPayment(n))

-----------------------------------------------------------------------------
(***************************************************************************)
(* The sign of the outputs of a commitment (SpecCommit)                    *)
(***************************************************************************)

\* C35: no commitment transaction returned by buildCommitmentTransaction has
\* an output with a negative value: when the fee share (the whole fee for
\* one output, fee / 2 for two) exceeds the pre-fee value of an output, the
\* build returns an error.
NoNegativeOutputs ==
    (cres.called /\ cres.ret.err = "")
        => \A i \in 1..Len(cres.ret.tx.TxOut) : cres.ret.tx.TxOut[i].Value >= 0

-----------------------------------------------------------------------------
(***************************************************************************)
(* The fundee after its InitialCommitmentSignature                         *)
(***************************************************************************)

\* C36: whenever the fundee has sent its InitialCommitmentSignature, so that
\* the funder may publish the funding transaction, the handler ends with the
\* channel persisted as Open: it never returns after sending the signature
\* without a record of the channel in its store.
SignatureSentImpliesPersisted ==
    [][\A n \in Node :
          (/\ rpc[n] = "awaitInitialCommit" /\ rpc'[n] = "idle"
           /\ TypesOf(rres'[n].sent) = <<"CHANNEL_ACCEPT", "INITIAL_COMMIT_SIGNATURE">>)
             => /\ rch[n].ID \in DOMAIN db'[n].open
                /\ GetChannel(db'[n], rch[n].ID).ch.Status = ChannelStatusOpen]_vars

-----------------------------------------------------------------------------
(***************************************************************************)
(* Proposals and the status of the channel (SpecStatus)                    *)
(***************************************************************************)

\* The status of the record node n holds of channel id.
StoredStatus(n, id) == GetChannel(db[n], id).ch.Status

-----------------------------------------------------------------------------
(***************************************************************************)
(* The bucket of a record (SpecStore)                                      *)
(***************************************************************************)

\* C38: saveChannel writes the record into the open bucket if and only if
\* its status is Open and into the closed bucket otherwise, leaving the other
\* bucket as it was: every record of the open bucket has status Open and no
\* record of the closed bucket has.
BucketMatchesStatus ==
    /\ [](\A id \in DOMAIN db[Funder].open :
            deserializeChannel(db[Funder].open[id], MainNetParams).ch.Status
               = ChannelStatusOpen)
    /\ [](\A id \in DOMAIN db[Funder].closed :
            deserializeChannel(db[Funder].closed[id], MainNetParams).ch.Status
               # ChannelStatusOpen)
    /\ [][\A channel \in SampleChannels, transaction \in SampleTransactions :
            StoreSave(Funder, channel, transaction, "none")
               => IF channel.Status = ChannelStatusOpen
                    THEN /\ channel.ID \in DOMAIN db'[Funder].open
                         /\ db'[Funder].closed = db[Funder].closed
                    ELSE /\ channel.ID \in DOMAIN db'[Funder].closed
                         /\ db'[Funder].open = db[Funder].open]_vars

\* The store holds an Open record in the open bucket and, of another
\* channel, a record with another status in the closed bucket.
BothBucketsFilled ==
    /\ cres.called /\ ~cres.err
    /\ \E i \in DOMAIN db[Funder].open, j \in DOMAIN db[Funder].closed :
          /\ i # j
          /\ i \notin DOMAIN db[Funder].closed
          /\ j \notin DOMAIN db[Funder].open

-----------------------------------------------------------------------------
(***************************************************************************)
(* What a completed update changes in the responder's record               *)
(***************************************************************************)

\* The fields of a record no update touches.
UpdateFrame(c) ==
    <<c.ID, c.Status, c.Inbound, c.RemotePeerID, c.RemotePubkey, c.LocalPrivkey, c.Delay,
      c.FeePerByte, c.DustLimit, c.RemotePayoutScript, c.LocalPayoutScript,
      c.FundingOutpoint, c.ChannelAddress, c.RedeemScript>>

\* The revocation pubkey that keyed the commitment node n held before the
\* one it has persisted last.
JustSupersededKey(n) == hist.keyed[n][Len(hist.keyed[n]) - 1]

\* C39: each update a node completes as responder adds exactly one entry to
\* its remote_revocation_privkeys and neither removes nor overwrites one; when
\* no exchange was aborted, the new entry is keyed by the breach address of
\* the commitment the proposer has just superseded; and the update leaves
\* the id, status, inbound flag, remote peer, channel keys, delay, fee rate,
\* dust limit, payout scripts, funding outpoint, channel address and redeem
\* script of the record as they were.
ResponderUpdateFrame ==
    [][\A n \in Node :
          (rpc[n] = "awaitFinalize" /\ rpc'[n] = "idle" /\ rres'[n].exit = "ok")
             => LET id == rch[n].ID
                    a == GetChannel(db[n], id).ch
                    b == GetChannel(db'[n], id).ch
                    added == (DOMAIN b.RemoteRevocationPrivkeys)
                                \ (DOMAIN a.RemoteRevocationPrivkeys)
                IN /\ Cardinality(added) = 1
                   /\ \A addr \in DOMAIN a.RemoteRevocationPrivkeys :
                         /\ addr \in DOMAIN b.RemoteRevocationPrivkeys
                         /\ b.RemoteRevocationPrivkeys[addr] = a.RemoteRevocationPrivkeys[addr]
                   /\ (~hist.failed /\ Len(hist.keyed[Other(n)]) >= 2)
                         => \A addr \in added :
                               addr = buildBreachRemedyAddress(
                                          JustSupersededKey(Other(n)), Pub(b.LocalPrivkey),
                                          b.RemotePubkey, b.Delay)
                   /\ UpdateFrame(b) = UpdateFrame(a)]_vars

-----------------------------------------------------------------------------
(***************************************************************************)
(* The goroutine of a read that timed out                                  *)
(***************************************************************************)

\* C40: once a call of readMessageWithTimeout has returned because the timeout
\* fired and the stream is closed, the goroutine that call started
\* eventually terminates, for every call made on the stream.
TimedOutReaderTerminates ==
    \A i \in Reads : (callRet[i] = "timeout" /\ streamClosed) ~> (readerPc[i] = "done")

=============================================================================
